---- MODULE Spec2Model ----
(***************************************************************************)
(* The deterministic validation engine of data-alchemist                   *)
(* (src/src/lib/validators/deterministic.ts): the list/range normalizer    *)
(* validateAndNormalizeList, the single- and cross-entity validators and   *)
(* the orchestrator runDeterministicValidations.                           *)
(*                                                                         *)
(* JavaScript strings are sequences of one-character strings.  JavaScript  *)
(* numbers are integers counted in tenths (15 is 1.5), which is exact for  *)
(* the inputs drawn here: at most one digit follows a decimal point, and   *)
(* adding 1 to such a value below 1000 is exact in IEEE arithmetic.        *)
(***************************************************************************)
EXTENDS Integers, Sequences, FiniteSets, TLC

\* ------------------------------------------------------------------ bounds
\* Longest input string drawn exhaustively for the normalizer.
MaxLen == 4
\* Longest run of digits in a drawn input (keeps range expansion finite).
MaxDigits == 2
\* Most rows of a dataset drawn for the duplicate-identifier check.
MaxIdRows == 3
\* Most rows of a dataset drawn for the cross-entity checks.
MaxRows == 2

\* --------------------------------------------------------------- JS values
Undefined == [t |-> "undefined"]
Str(s) == [t |-> "string", s |-> s]
Num(n) == [t |-> "number", n |-> n]
Bool(b) == [t |-> "boolean", b |-> b]
Obj == [t |-> "object"]

IsStr(v) == v.t = "string"

\* JavaScript truthiness (the `!value`, `if (id)` tests of the source).
Truthy(v) ==
  CASE v.t = "undefined" -> FALSE
    [] v.t = "string" -> v.s # <<>>
    [] v.t = "number" -> v.n # 0
    [] v.t = "boolean" -> v.b
    [] OTHER -> TRUE

\* --------------------------------------------------------- string helpers
Digits == <<"0", "1", "2", "3", "4", "5", "6", "7", "8", "9">>
IsDigit(c) == \E i \in 1..10 : Digits[i] = c
DigitVal(c) == (CHOOSE i \in 1..10 : Digits[i] = c) - 1

\* The characters used, in ascending order of their UTF-16 code units, the
\* order Array.prototype.sort() compares strings by.
CodeOrder ==
  <<" ", ",", "-", ".", "0", "1", "2", "3", "4", "5", "6", "7", "8", "9",
    "C", "T", "W", "[", "]", "a", "b", "c", "w">>
CharCode(c) == CHOOSE i \in 1..Len(CodeOrder) : CodeOrder[i] = c

Includes(s, c) == \E i \in 1..Len(s) : s[i] = c

\* String.prototype.trim: strip the white space of both ends.
Trim(s) ==
  IF \A i \in 1..Len(s) : s[i] = " " THEN <<>>
  ELSE SubSeq(s,
              CHOOSE i \in 1..Len(s) : s[i] # " " /\ \A j \in 1..(i - 1) : s[j] = " ",
              CHOOSE i \in 1..Len(s) : s[i] # " " /\ \A j \in (i + 1)..Len(s) : s[j] = " ")

\* String.prototype.split(sep) for a one-character separator: the pieces
\* between the separators, empty pieces kept ("" splits into [""]).
RECURSIVE SplitFrom(_, _, _)
SplitFrom(s, sep, i) ==
  IF \A j \in i..Len(s) : s[j] # sep THEN <<SubSeq(s, i, Len(s))>>
  ELSE LET cut == CHOOSE j \in i..Len(s) :
                    s[j] = sep /\ \A k \in i..(j - 1) : s[k] # sep
       IN <<SubSeq(s, i, cut - 1)>> \o SplitFrom(s, sep, cut + 1)

Split(s, sep) == SplitFrom(s, sep, 1)

\* Array.prototype.filter(Boolean) on strings: drop the empty ones.
RECURSIVE FilterNonEmpty(_)
FilterNonEmpty(xs) ==
  IF xs = <<>> THEN <<>>
  ELSE IF Head(xs) = <<>> THEN FilterNonEmpty(Tail(xs))
  ELSE <<Head(xs)>> \o FilterNonEmpty(Tail(xs))

MapTrim(xs) == [i \in 1..Len(xs) |-> Trim(xs[i])]

\* [...new Set(xs)]: the first occurrence of every element, in order.
RECURSIVE Dedupe(_)
Dedupe(xs) ==
  IF xs = <<>> THEN <<>>
  ELSE LET front == Dedupe(SubSeq(xs, 1, Len(xs) - 1))
           last == xs[Len(xs)]
       IN IF \E i \in 1..Len(front) : front[i] = last THEN front
          ELSE Append(front, last)

\* Array.prototype.join(", ").
RECURSIVE Join(_)
Join(xs) ==
  IF xs = <<>> THEN <<>>
  ELSE IF Len(xs) = 1 THEN xs[1]
  ELSE xs[1] \o <<",", " ">> \o Join(Tail(xs))

\* ---------------------------------------------------------------- numbers
\* A JavaScript number: NaN, or a value counted in tenths.
NaN == [nan |-> TRUE, v |-> 0]
Val(v) == [nan |-> FALSE, v |-> v]

\* Infinity, above every finite value of the model (tenths).
InfinityValue == 2000000000
InfinityText == <<"I", "n", "f", "i", "n", "i", "t", "y">>

RECURSIVE DigitsValue(_)
DigitsValue(ds) ==
  IF ds = <<>> THEN 0
  ELSE 10 * DigitsValue(SubSeq(ds, 1, Len(ds) - 1)) + DigitVal(ds[Len(ds)])

AllDigits(s) == \A i \in 1..Len(s) : IsDigit(s[i])

\* An unsigned decimal literal: digits, digits ".", "." digit, digits "." digit.
UnsignedNumber(u) ==
  IF u = <<>> THEN NaN
  ELSE IF u = InfinityText THEN Val(InfinityValue)
  ELSE IF ~Includes(u, ".") THEN
    IF AllDigits(u) THEN Val(10 * DigitsValue(u)) ELSE NaN
  ELSE
    LET dot == CHOOSE i \in 1..Len(u) : u[i] = "." /\ \A j \in 1..(i - 1) : u[j] # "."
        ip == SubSeq(u, 1, dot - 1)
        fp == SubSeq(u, dot + 1, Len(u))
    IN IF AllDigits(ip) /\ AllDigits(fp) /\ Len(fp) <= 1 /\ (ip # <<>> \/ fp # <<>>)
       THEN Val(10 * DigitsValue(ip) + DigitsValue(fp))
       ELSE NaN

Negate(u) == IF u.nan THEN NaN ELSE Val(0 - u.v)

\* A trimmed string as a number: "" is 0, an optional sign and a decimal literal,
\* anything else NaN.
SignedNumber(t) ==
  IF t = <<>> THEN Val(0)
  ELSE IF t[1] = "-" THEN Negate(UnsignedNumber(Tail(t)))
  ELSE IF t[1] = "+" THEN UnsignedNumber(Tail(t))
  ELSE UnsignedNumber(t)

\* Number(string): white space trimmed first.
ToNumber(s) == SignedNumber(Trim(s))

RECURSIVE NatToString(_)
NatToString(n) ==
  IF n < 10 THEN <<Digits[n + 1]>>
  ELSE NatToString(n \div 10) \o <<Digits[(n % 10) + 1]>>

\* String(number) for a value counted in tenths: "-" for a negative value, the
\* integer part, and "." with the tenth when it is not 0.
NumToString(v) ==
  LET a == IF v < 0 THEN 0 - v ELSE v
      body == NatToString(a \div 10) \o
              (IF a % 10 = 0 THEN <<>> ELSE <<".", Digits[(a % 10) + 1]>>)
  IN IF v < 0 THEN <<"-">> \o body ELSE body

\* ------------------------------------------------------ list normalizer
\* An error message: its fixed text and the token it quotes.
Message(kind, item) == [t |-> "message", kind |-> kind, item |-> item]

\* The comparison of Array.prototype.sort() without a comparator: by code unit,
\* a proper prefix first.
StrLess(a, b) ==
  \E i \in 1..Len(b) :
    /\ \A j \in 1..(i - 1) : j <= Len(a) /\ a[j] = b[j]
    /\ (i > Len(a) \/ CharCode(a[i]) < CharCode(b[i]))

RECURSIVE InsertStr(_, _)
InsertStr(x, xs) ==
  IF xs = <<>> THEN <<x>>
  ELSE IF StrLess(x, Head(xs)) THEN <<x>> \o xs
  ELSE <<Head(xs)>> \o InsertStr(x, Tail(xs))

\* As SortStrings, with the sort left out.
SortStrings_Unsorted(xs) == xs

\* normalizedParts.sort()
RECURSIVE SortStrings(_)
SortStrings(xs) ==
  IF xs = <<>> THEN <<>> ELSE InsertStr(Head(xs), SortStrings(Tail(xs)))

RECURSIVE InsertNum(_, _)
InsertNum(x, xs) ==
  IF xs = <<>> THEN <<x>>
  ELSE IF x < Head(xs) THEN <<x>> \o xs
  ELSE <<Head(xs)>> \o InsertNum(x, Tail(xs))

\* .sort((a, b) => a - b)
RECURSIVE SortNumbers(_)
SortNumbers(xs) ==
  IF xs = <<>> THEN <<>> ELSE InsertNum(Head(xs), SortNumbers(Tail(xs)))

\* for (let i = start; i <= end; i++) normalizedParts.push(i), in tenths.
ExpandRange(start, end) ==
  [k \in 1..(((end - start) \div 10) + 1) |-> start + 10 * (k - 1)]

Failed(kind, item) == [error |-> Message(kind, item), parts |-> <<>>]
Pushed(parts) == [error |-> Undefined, parts |-> parts]

\* const [start, end] = parts.map(Number), and the checks on them.
RangeBounds(item, start, end) ==
  IF start.nan \/ end.nan THEN Failed("Non-numeric value in range", item)
  ELSE IF start.v > end.v THEN Failed("Invalid range, start > end", item)
  ELSE Pushed(ExpandRange(start.v, end.v))

\* const parts = item.split('-').map(p => p.trim())
RangeItem(item, parts) ==
  IF Len(parts) # 2 THEN Failed("Invalid range format", item)
  ELSE RangeBounds(item, ToNumber(parts[1]), ToNumber(parts[2]))

\* const num = Number(item)
NumberItem(item, num) ==
  IF num.nan THEN Failed("Non-numeric value", item) ELSE Pushed(<<num.v>>)

\* One token of a numeric list: the numbers it pushes, or the error returned.
NumericItem(item, allowRanges) ==
  IF allowRanges /\ Includes(item, "-")
  THEN RangeItem(item, MapTrim(Split(item, "-")))
  ELSE NumberItem(item, ToNumber(item))

\* The first failing token returns its error; otherwise the numbers pushed.
ThenItems(first, rest) ==
  IF first.error # Undefined THEN first
  ELSE IF rest.error # Undefined THEN rest
  ELSE Pushed(first.parts \o rest.parts)

\* The loop over the tokens.
RECURSIVE NumericItems(_, _)
NumericItems(items, allowRanges) ==
  IF items = <<>> THEN Pushed(<<>>)
  ELSE ThenItems(NumericItem(Head(items), allowRanges),
                 NumericItems(Tail(items), allowRanges))

\* p.startsWith('[') && p.endsWith(']') ? p.substring(1, p.length - 1) : p
Unwrap(p) ==
  IF Len(p) >= 1 /\ p[1] = "[" /\ p[Len(p)] = "]" THEN SubSeq(p, 2, Len(p) - 1) ELSE p

\* value.trim(), and one outer pair of square brackets stripped.
StripBrackets(s) == Unwrap(Trim(s))

\* processedValue.split(',').map(trim).filter(Boolean)
Items(s) == FilterNonEmpty(MapTrim(Split(StripBrackets(s), ",")))

RECURSIVE FilterNoHyphen(_)
FilterNoHyphen(xs) ==
  IF xs = <<>> THEN <<>>
  ELSE IF Includes(Head(xs), "-") THEN FilterNoHyphen(Tail(xs))
  ELSE <<Head(xs)>> \o FilterNoHyphen(Tail(xs))

StringList(items) == SortStrings(Dedupe(FilterNoHyphen(items)))

NumbersToStrings(ns) == [i \in 1..Len(ns) |-> NumToString(ns[i])]

Normalized(s) == [normalized |-> Str(s), error |-> Undefined]

\* As NumericResult, but a failing list also returns the (empty) list built.
NumericResult_PartialOnError(r) ==
  [normalized |-> Str(Join(NumbersToStrings(SortNumbers(Dedupe(r.parts))))),
   error |-> r.error]

\* The return of the numeric branch: the error, or the sorted list.
NumericResult(r) ==
  IF r.error # Undefined THEN [normalized |-> Undefined, error |-> r.error]
  ELSE Normalized(Join(NumbersToStrings(SortNumbers(Dedupe(r.parts)))))

\* As NormalizeItems, but string mode reports an item with a hyphen as a
\* malformed range instead of dropping it.
NormalizeItems_HyphenError(items, options) ==
  IF options.numeric THEN NumericResult(NumericItems(items, options.allowRanges))
  ELSE IF \E k \in 1..Len(items) : Includes(items[k], "-")
  THEN [normalized |-> Undefined,
        error |-> Message("Invalid range format",
                          items[CHOOSE k \in 1..Len(items) : Includes(items[k], "-")])]
  ELSE Normalized(Join(StringList(items)))

NormalizeItems(items, options) ==
  IF options.numeric THEN NumericResult(NumericItems(items, options.allowRanges))
  ELSE Normalized(Join(StringList(items)))

validateAndNormalizeList(value, options) ==
  IF ~Truthy(value) \/ ~IsStr(value)
  THEN [normalized |-> value, error |-> Undefined]
  ELSE NormalizeItems(Items(value.s), options)

\* ------------------------------------------------------------- coercions
\* Number(v) of a cell value.
ToNumberV(v) ==
  CASE v.t = "string" -> ToNumber(v.s)
    [] v.t = "number" -> Val(v.n)
    [] v.t = "boolean" -> Val(IF v.b THEN 10 ELSE 0)
    [] OTHER -> NaN

\* String(v) of a cell value, as a template literal renders it.
ToStringV(v) ==
  CASE v.t = "string" -> v.s
    [] v.t = "number" -> NumToString(v.n)
    [] v.t = "boolean" ->
         IF v.b THEN <<"t", "r", "u", "e">> ELSE <<"f", "a", "l", "s", "e">>
    [] v.t = "undefined" -> <<"u", "n", "d", "e", "f", "i", "n", "e", "d">>
    [] OTHER -> <<"[", "o", "b", "j", "e", "c", "t", " ", "O", "b", "j", "e", "c", "t", "]">>

\* ------------------------------------------------------ validation results
ValidationResult(rowIndex, header, message) ==
  [rowIndex |-> rowIndex, header |-> header, message |-> message]

\* A message with two interpolated values.
Message2(kind, item, item2) ==
  [t |-> "message", kind |-> kind, item |-> item, item2 |-> item2]

\* errors.push(...) over data.forEach: the per-row results, concatenated.
RECURSIVE Flatten(_)
Flatten(xss) == IF xss = <<>> THEN <<>> ELSE Head(xss) \o Flatten(Tail(xss))

Elems(xs) == {xs[i] : i \in 1..Len(xs)}

\* Array.prototype.filter, the callback given as the set of the values it keeps.
FilterSeq(xs, kept) ==
  LET F[i \in 0..Len(xs)] ==
        IF i = 0 THEN <<>>
        ELSE IF xs[i] \in kept THEN Append(F[i - 1], xs[i]) ELSE F[i - 1]
  IN F[Len(xs)]

SeqIncludes(xs, x) == \E i \in 1..Len(xs) : xs[i] = x

\* normalized ? normalized.split(',').map(s => s.trim()) : []
SplitNormalized(normalized) ==
  IF Truthy(normalized) THEN MapTrim(Split(normalized.s, ",")) ELSE <<>>

\* normalized ? normalized.split(',').map(Number) : []
SplitNumbers(normalized) ==
  IF Truthy(normalized)
  THEN [i \in 1..Len(Split(normalized.s, ",")) |-> ToNumber(Split(normalized.s, ",")[i]).v]
  ELSE <<>>

StringMode == [numeric |-> FALSE, allowRanges |-> FALSE]
SlotsMode == [numeric |-> TRUE, allowRanges |-> FALSE]
PhasesMode == [numeric |-> TRUE, allowRanges |-> TRUE]

\* ------------------------------------------------ single-entity validators
\* As validateRequiredColumns, but reports the first missing column only.
validateRequiredColumns_FirstOnly(headers, requiredHeaders) ==
  LET missingHeaders ==
        FilterSeq(requiredHeaders, {h \in Elems(requiredHeaders) : h \notin Elems(headers)})
  IN [i \in 1..(IF missingHeaders = <<>> THEN 0 ELSE 1) |->
        ValidationResult(-1, missingHeaders[i],
                         Message("Missing required column", <<missingHeaders[i]>>))]

validateRequiredColumns(headers, requiredHeaders) ==
  LET missingHeaders ==
        FilterSeq(requiredHeaders, {h \in Elems(requiredHeaders) : h \notin Elems(headers)})
  IN [i \in 1..Len(missingHeaders) |->
        ValidationResult(-1, missingHeaders[i],
                         Message("Missing required column", <<missingHeaders[i]>>))]

\* The first pass of validateDuplicateIds from row i on: the ids seen again.
RECURSIVE DuplicateIds(_, _, _, _, _)
DuplicateIds(data, idHeader, i, seenIds, duplicateIds) ==
  IF i > Len(data) THEN duplicateIds
  ELSE LET id == data[i][idHeader]
       IN IF Truthy(id)
          THEN IF id \in seenIds
               THEN DuplicateIds(data, idHeader, i + 1, seenIds, duplicateIds \cup {id})
               ELSE DuplicateIds(data, idHeader, i + 1, seenIds \cup {id}, duplicateIds)
          ELSE DuplicateIds(data, idHeader, i + 1, seenIds, duplicateIds)

\* As validateDuplicateIds, but the first row of a duplicated id is not reported.
validateDuplicateIds_RepeatsOnly(data, idHeader) ==
  Flatten([i \in 1..Len(data) |->
    IF /\ Truthy(data[i][idHeader])
       /\ \E j \in 1..(i - 1) : data[j][idHeader] = data[i][idHeader]
    THEN <<ValidationResult(i - 1, idHeader,
             Message("Duplicate ID found", ToStringV(data[i][idHeader])))>>
    ELSE <<>>])

validateDuplicateIds(data, idHeader) ==
  LET duplicateIds == DuplicateIds(data, idHeader, 1, {}, {})
  IN Flatten([i \in 1..Len(data) |->
       IF data[i][idHeader] \in duplicateIds
       THEN <<ValidationResult(i - 1, idHeader,
                Message("Duplicate ID found", ToStringV(data[i][idHeader])))>>
       ELSE <<>>])

\* A bound of a numeric range: a number in tenths, or Infinity.
Finite(n) == [inf |-> FALSE, v |-> 10 * n]
Infinity == [inf |-> TRUE, v |-> 0]
BoundToString(b) ==
  IF b.inf THEN <<"I", "n", "f", "i", "n", "i", "t", "y">> ELSE NumToString(b.v)

\* As validateOutOfRange, but a value on a bound is out of range too.
validateOutOfRange_Exclusive(data, header, min, max) ==
  Flatten([i \in 1..Len(data) |->
    LET value == ToNumberV(data[i][header])
    IN IF /\ Truthy(data[i][header])
          /\ ~value.nan
          /\ (value.v <= min.v \/ (~max.inf /\ value.v >= max.v))
       THEN <<ValidationResult(i - 1, header,
                Message2("Value out of range", NumToString(value.v),
                         BoundToString(min) \o <<"-">> \o BoundToString(max)))>>
       ELSE <<>>])

validateOutOfRange(data, header, min, max) ==
  Flatten([i \in 1..Len(data) |->
    LET value == ToNumberV(data[i][header])
    IN IF /\ Truthy(data[i][header])
          /\ ~value.nan
          /\ (value.v < min.v \/ (~max.inf /\ value.v > max.v))
       THEN <<ValidationResult(i - 1, header,
                Message2("Value out of range", NumToString(value.v),
                         BoundToString(min) \o <<"-">> \o BoundToString(max)))>>
       ELSE <<>>])

\* JSON.parse, as far as it throws or returns: a recursive-descent reading of
\* the JSON grammar. Each Parse operator takes the position of the first
\* character to read and gives the position after what it read, or 0 where
\* JSON.parse throws a SyntaxError. Exponents and escapes are not read.
RECURSIVE SkipWs(_, _)
SkipWs(s, i) == IF i <= Len(s) /\ s[i] = " " THEN SkipWs(s, i + 1) ELSE i

RECURSIVE SkipDigits(_, _)
SkipDigits(s, i) == IF i <= Len(s) /\ IsDigit(s[i]) THEN SkipDigits(s, i + 1) ELSE i

\* The fraction of a number from position i: absent, or a point and digits.
ParseFraction(s, i) ==
  IF i <= Len(s) /\ s[i] = "."
  THEN IF SkipDigits(s, i + 1) > i + 1 THEN SkipDigits(s, i + 1) ELSE 0
  ELSE i

\* The integer part: a single 0, or digits that do not start with 0.
ParseInteger(s, i) ==
  IF i > Len(s) \/ ~IsDigit(s[i]) THEN 0
  ELSE IF s[i] = "0" THEN ParseFraction(s, i + 1)
  ELSE ParseFraction(s, SkipDigits(s, i))

ParseNumber(s, i) == IF s[i] = "-" THEN ParseInteger(s, i + 1) ELSE ParseInteger(s, i)

\* A string from the position after its opening quote.
RECURSIVE ParseString(_, _)
ParseString(s, i) ==
  IF i > Len(s) \/ s[i] = "\\" THEN 0
  ELSE IF s[i] = "\"" THEN i + 1
  ELSE ParseString(s, i + 1)

ParseLiteral(s, i, literal) ==
  IF i + Len(literal) - 1 <= Len(s) /\ SubSeq(s, i, i + Len(literal) - 1) = literal
  THEN i + Len(literal)
  ELSE 0

RECURSIVE ParseValue(_, _)
RECURSIVE ParseElements(_, _)
RECURSIVE ParseMembers(_, _)

\* After an element that ended before position v: a comma and the next element,
\* or the closing bracket.
AfterElement(s, v) ==
  IF v = 0 \/ v > Len(s) THEN 0
  ELSE IF s[v] = "]" THEN v + 1
  ELSE IF s[v] = "," THEN ParseElements(s, SkipWs(s, v + 1))
  ELSE 0

SkipWsAfter(s, v) == IF v = 0 THEN 0 ELSE SkipWs(s, v)

ParseElements(s, i) == AfterElement(s, SkipWsAfter(s, ParseValue(s, i)))

ParseArray(s, i) ==
  IF i <= Len(s) /\ s[i] = "]" THEN i + 1 ELSE ParseElements(s, i)

\* After a member that ended before position v.
AfterMember(s, v) ==
  IF v = 0 \/ v > Len(s) THEN 0
  ELSE IF s[v] = "}" THEN v + 1
  ELSE IF s[v] = "," THEN ParseMembers(s, SkipWs(s, v + 1))
  ELSE 0

\* After a member's name that ended before position k: the colon and the value.
AfterName(s, k) ==
  IF k = 0 \/ k > Len(s) \/ s[k] # ":" THEN 0
  ELSE AfterMember(s, SkipWsAfter(s, ParseValue(s, SkipWs(s, k + 1))))

ParseMembers(s, i) ==
  IF i > Len(s) \/ s[i] # "\"" THEN 0
  ELSE AfterName(s, SkipWsAfter(s, ParseString(s, i + 1)))

ParseObject(s, i) ==
  IF i <= Len(s) /\ s[i] = "}" THEN i + 1 ELSE ParseMembers(s, i)

ParseValue(s, i) ==
  IF i > Len(s) THEN 0
  ELSE CASE s[i] = "{" -> ParseObject(s, SkipWs(s, i + 1))
         [] s[i] = "[" -> ParseArray(s, SkipWs(s, i + 1))
         [] s[i] = "\"" -> ParseString(s, i + 1)
         [] s[i] = "-" \/ IsDigit(s[i]) -> ParseNumber(s, i)
         [] s[i] = "t" -> ParseLiteral(s, i, <<"t", "r", "u", "e">>)
         [] s[i] = "f" -> ParseLiteral(s, i, <<"f", "a", "l", "s", "e">>)
         [] s[i] = "n" -> ParseLiteral(s, i, <<"n", "u", "l", "l">>)
         [] OTHER -> 0

\* The text is one JSON value and white space around it.
JsonParses(s) == SkipWsAfter(s, ParseValue(s, SkipWs(s, 1))) = Len(s) + 1

\* The catch block is empty: a value that fails to parse adds no result.
validateBrokenJson(data, header) ==
  Flatten([i \in 1..Len(data) |->
    IF Truthy(data[i][header]) /\ IsStr(data[i][header])
    THEN IF JsonParses(data[i][header].s) THEN <<>> ELSE <<>>
    ELSE <<>>])

\* As OverloadedWorker, but the rows are numbered from one.
OverloadedWorker_OneBased(worker, workerIndex) ==
  IF Truthy(worker["AvailableSlots"]) /\ ~ToNumberV(worker["MaxLoadPerPhase"]).nan
  THEN IF validateAndNormalizeList(worker["AvailableSlots"], SlotsMode).error # Undefined
       THEN <<ValidationResult(workerIndex + 1, "AvailableSlots",
                Message("Malformed AvailableSlots: "
                          \o validateAndNormalizeList(worker["AvailableSlots"],
                                                      SlotsMode).error.kind,
                        validateAndNormalizeList(worker["AvailableSlots"],
                                                 SlotsMode).error.item))>>
       ELSE IF 10 * Len(SplitNumbers(validateAndNormalizeList(worker["AvailableSlots"],
                                                               SlotsMode).normalized))
                 < ToNumberV(worker["MaxLoadPerPhase"]).v
       THEN <<ValidationResult(workerIndex + 1, "MaxLoadPerPhase",
                Message2("Worker has fewer available slots than MaxLoadPerPhase",
                         NumToString(10 * Len(SplitNumbers(
                           validateAndNormalizeList(worker["AvailableSlots"],
                                                    SlotsMode).normalized))),
                         NumToString(ToNumberV(worker["MaxLoadPerPhase"]).v)))>>
       ELSE <<>>
  ELSE <<>>

\* The callback of workersData.forEach: the results of one worker row.
OverloadedWorker(worker, workerIndex) ==
  LET availableSlotsStr == worker["AvailableSlots"]
      maxLoadPerPhase == ToNumberV(worker["MaxLoadPerPhase"])
  IN IF Truthy(availableSlotsStr) /\ ~maxLoadPerPhase.nan
     THEN LET r == validateAndNormalizeList(availableSlotsStr, SlotsMode)
          IN IF r.error # Undefined
             THEN <<ValidationResult(workerIndex, "AvailableSlots",
                      Message("Malformed AvailableSlots: " \o r.error.kind, r.error.item))>>
             ELSE LET availableSlots == SplitNumbers(r.normalized)
                  IN IF 10 * Len(availableSlots) < maxLoadPerPhase.v
                     THEN <<ValidationResult(workerIndex, "MaxLoadPerPhase",
                              Message2("Worker has fewer available slots than MaxLoadPerPhase",
                                       NumToString(10 * Len(availableSlots)),
                                       NumToString(maxLoadPerPhase.v)))>>
                     ELSE <<>>
     ELSE <<>>

\* As validateOverloadedWorkers, but the rows after a malformed one are skipped.
validateOverloadedWorkers_StopsAtMalformed(workersData) ==
  Flatten([i \in 1..Len(workersData) |->
    IF \E j \in 1..(i - 1) :
         \E e \in Elems(OverloadedWorker(workersData[j], j - 1)) : e.header = "AvailableSlots"
    THEN <<>>
    ELSE OverloadedWorker(workersData[i], i - 1)])

validateOverloadedWorkers(workersData) ==
  Flatten([i \in 1..Len(workersData) |-> OverloadedWorker(workersData[i], i - 1)])

\* ------------------------------------------------- cross-entity validators
\* The tokens of a string-list cell, as the checks normalize and split them.
SkillsOf(skillsStr) ==
  IF Truthy(skillsStr)
  THEN SplitNormalized(validateAndNormalizeList(skillsStr, StringMode).normalized)
  ELSE <<>>

\* As validateUnknownReferences, but every requested id is reported.
validateUnknownReferences_AllUnknown(clientsData, tasksData) ==
  Flatten([i \in 1..Len(clientsData) |->
    [k \in 1..Len(SkillsOf(clientsData[i]["Requested TaskIDs"])) |->
       ValidationResult(i - 1, "Requested TaskIDs",
         Message("Unknown TaskID", SkillsOf(clientsData[i]["Requested TaskIDs"])[k]))]])

validateUnknownReferences(clientsData, tasksData) ==
  LET taskIds == {tasksData[i]["TaskID"] : i \in 1..Len(tasksData)}
  IN Flatten([i \in 1..Len(clientsData) |->
       LET requestedTasksStr == clientsData[i]["Requested TaskIDs"]
       IN IF Truthy(requestedTasksStr)
          THEN LET r == validateAndNormalizeList(requestedTasksStr, StringMode)
               IN IF r.error # Undefined
                  THEN <<ValidationResult(i - 1, "Requested TaskIDs",
                           Message("Malformed Requested TaskIDs: " \o r.error.kind,
                                   r.error.item))>>
                  ELSE LET requestedTaskIds == SplitNormalized(r.normalized)
                           unknown ==
                             FilterSeq(requestedTaskIds,
                               {reqTaskId \in Elems(requestedTaskIds) :
                                  Str(reqTaskId) \notin taskIds})
                       IN [k \in 1..Len(unknown) |->
                             ValidationResult(i - 1, "Requested TaskIDs",
                               Message("Unknown TaskID", unknown[k]))]
          ELSE <<>>])

\* As validateSkillCoverageMatrix, but only the first worker's skills count.
validateSkillCoverageMatrix_FirstWorker(tasksData, workersData) ==
  Flatten([i \in 1..Len(tasksData) |->
    LET missing ==
          FilterSeq(SkillsOf(tasksData[i]["RequiredSkills"]),
            Elems(SkillsOf(tasksData[i]["RequiredSkills"]))
              \ Elems(SkillsOf(workersData[1]["Skills"])))
    IN [k \in 1..Len(missing) |->
          ValidationResult(i - 1, "RequiredSkills",
            Message("Required skill not found in any worker", missing[k]))]])

validateSkillCoverageMatrix(tasksData, workersData) ==
  LET workerSkills ==
        UNION {{SkillsOf(workersData[w]["Skills"])[k] :
                  k \in 1..Len(SkillsOf(workersData[w]["Skills"]))} :
               w \in 1..Len(workersData)}
  IN Flatten([i \in 1..Len(tasksData) |->
       LET requiredSkillsStr == tasksData[i]["RequiredSkills"]
       IN IF Truthy(requiredSkillsStr)
          THEN LET r == validateAndNormalizeList(requiredSkillsStr, StringMode)
               IN IF r.error # Undefined
                  THEN <<ValidationResult(i - 1, "RequiredSkills",
                           Message("Malformed RequiredSkills: " \o r.error.kind,
                                   r.error.item))>>
                  ELSE LET requiredSkills == SplitNormalized(r.normalized)
                           missing ==
                             FilterSeq(requiredSkills,
                               {reqSkill \in Elems(requiredSkills) :
                                  reqSkill \notin workerSkills})
                       IN [k \in 1..Len(missing) |->
                             ValidationResult(i - 1, "RequiredSkills",
                               Message("Required skill not found in any worker",
                                       missing[k]))]
          ELSE <<>>])

\* As validateMaxConcurrencyFeasibility, but a worker that lacks a required
\* skill disqualifies all of them.
validateMaxConcurrencyFeasibility_AllQualified(tasksData, workersData) ==
  Flatten([i \in 1..Len(tasksData) |->
    IF ToNumberV(tasksData[i]["MaxConcurrent"]).nan
         \/ ToNumberV(tasksData[i]["MaxConcurrent"]).v <= 0
    THEN <<>>
    ELSE IF /\ Truthy(tasksData[i]["RequiredSkills"])
            /\ \A w \in 1..Len(workersData) :
                 /\ Truthy(workersData[w]["Skills"])
                 /\ Elems(SkillsOf(tasksData[i]["RequiredSkills"]))
                      \subseteq Elems(SkillsOf(workersData[w]["Skills"]))
            /\ ToNumberV(tasksData[i]["MaxConcurrent"]).v <= 10 * Len(workersData)
    THEN <<>>
    ELSE <<ValidationResult(i - 1, "MaxConcurrent",
             Message2("MaxConcurrent is higher than available qualified workers",
                      NumToString(ToNumberV(tasksData[i]["MaxConcurrent"]).v), <<"0">>))>>])

validateMaxConcurrencyFeasibility(tasksData, workersData) ==
  Flatten([i \in 1..Len(tasksData) |->
    LET maxConcurrent == ToNumberV(tasksData[i]["MaxConcurrent"])
        requiredSkillsStr == tasksData[i]["RequiredSkills"]
    IN IF maxConcurrent.nan \/ maxConcurrent.v <= 0 THEN <<>>
       ELSE LET requiredSkills ==
                  SplitNormalized(validateAndNormalizeList(requiredSkillsStr, StringMode).normalized)
                qualified ==
                  {w \in 1..Len(workersData) :
                     /\ Truthy(workersData[w]["Skills"])
                     /\ \A k \in 1..Len(requiredSkills) :
                          \E j \in 1..Len(SkillsOf(workersData[w]["Skills"])) :
                            SkillsOf(workersData[w]["Skills"])[j] = requiredSkills[k]}
                qualifiedWorkerCount ==
                  IF Truthy(requiredSkillsStr) THEN Cardinality(qualified) ELSE 0
            IN IF maxConcurrent.v > 10 * qualifiedWorkerCount
               THEN <<ValidationResult(i - 1, "MaxConcurrent",
                        Message2("MaxConcurrent is higher than available qualified workers",
                                 NumToString(maxConcurrent.v),
                                 NumToString(10 * qualifiedWorkerCount)))>>
               ELSE <<>>])


\* The slots of a worker's AvailableSlots cell / the phases of a task's
\* PreferredPhases cell, in tenths; none when the cell is empty or malformed.
SlotsOf(availableSlotsStr) ==
  IF Truthy(availableSlotsStr)
  THEN SplitNumbers(validateAndNormalizeList(availableSlotsStr, SlotsMode).normalized)
  ELSE <<>>

PhasesOf(preferredPhasesStr) ==
  IF Truthy(preferredPhasesStr)
  THEN SplitNumbers(validateAndNormalizeList(preferredPhasesStr, PhasesMode).normalized)
  ELSE <<>>

SeqMax(xs, floor) ==
  IF \A i \in 1..Len(xs) : xs[i] <= floor THEN floor
  ELSE CHOOSE m \in {xs[i] : i \in 1..Len(xs)} : \A i \in 1..Len(xs) : xs[i] <= m

\* let maxPhase = 0, raised by every slot and every preferred phase (tenths).
MaxPhase(tasksData, workersData) ==
  LET slots == Flatten([w \in 1..Len(workersData) |-> SlotsOf(workersData[w]["AvailableSlots"])])
      phases == Flatten([i \in 1..Len(tasksData) |-> PhasesOf(tasksData[i]["PreferredPhases"])])
  IN SeqMax(slots \o phases, 0)

RECURSIVE SumSeq(_)
SumSeq(xs) == IF xs = <<>> THEN 0 ELSE Head(xs) + SumSeq(Tail(xs))

\* As PhaseCapacity, but a worker counts for every phase, whatever its slots.
PhaseCapacity_AnySlot(workersData, p) ==
  SumSeq([w \in 1..Len(workersData) |->
    IF /\ Truthy(workersData[w]["AvailableSlots"])
       /\ ~ToNumberV(workersData[w]["MaxLoadPerPhase"]).nan
    THEN ToNumberV(workersData[w]["MaxLoadPerPhase"]).v ELSE 0])

\* phaseCapacities[p], in tenths.
PhaseCapacity(workersData, p) ==
  SumSeq([w \in 1..Len(workersData) |->
    LET availableSlotsStr == workersData[w]["AvailableSlots"]
        maxLoadPerPhase == ToNumberV(workersData[w]["MaxLoadPerPhase"])
    IN IF /\ Truthy(availableSlotsStr) /\ ~maxLoadPerPhase.nan
          /\ SeqIncludes(SlotsOf(availableSlotsStr), 10 * p)
       THEN maxLoadPerPhase.v ELSE 0])

\* As PhaseDemand, but a task adds its Duration instead of 1.
PhaseDemand_AddsDuration(tasksData, p) ==
  SumSeq([i \in 1..Len(tasksData) |->
    IF /\ ~ToNumberV(tasksData[i]["Duration"]).nan
       /\ ToNumberV(tasksData[i]["Duration"]).v > 0
       /\ Truthy(tasksData[i]["PreferredPhases"])
       /\ SeqIncludes(PhasesOf(tasksData[i]["PreferredPhases"]), 10 * p)
    THEN ToNumberV(tasksData[i]["Duration"]).v \div 10 ELSE 0])

\* phaseDemands[p], a count.
PhaseDemand(tasksData, p) ==
  SumSeq([i \in 1..Len(tasksData) |->
    LET duration == ToNumberV(tasksData[i]["Duration"])
        preferredPhasesStr == tasksData[i]["PreferredPhases"]
    IN IF /\ ~duration.nan /\ duration.v > 0 /\ Truthy(preferredPhasesStr)
          /\ SeqIncludes(PhasesOf(preferredPhasesStr), 10 * p)
       THEN 1 ELSE 0])

\* As PhaseHeader, but the header is the bare number of the phase.
PhaseHeader_Number(p) == ToString(p)

\* `Phase ${p}`
PhaseHeader(p) == "Phase " \o ToString(p)

\* The comparison of one phase: its result, if it is saturated.
PhaseResult(p, demand, capacity) ==
  IF 10 * demand > capacity
  THEN <<ValidationResult(-1, PhaseHeader(p),
           Message2("Phase is saturated: Demand exceeds Capacity",
                    NumToString(10 * demand), NumToString(capacity)))>>
  ELSE <<>>

validatePhaseSlotSaturation(tasksData, workersData) ==
  Flatten([p \in 1..(MaxPhase(tasksData, workersData) \div 10) |->
    PhaseResult(p, PhaseDemand(tasksData, p), PhaseCapacity(workersData, p))])

\* ----------------------------------------------------------- orchestrator
ClientsRequired == <<"ClientID", "PriorityLevel", "Requested TaskIDs", "AttributesJSON">>
WorkersRequired == <<"WorkerID", "Skills", "AvailableSlots", "MaxLoadPerPhase">>
TasksRequired == <<"TaskID", "Duration", "RequiredSkills", "PreferredPhases", "MaxConcurrent">>

\* normalized.split(',') on a cell the normalizer passed through as it was: a
\* truthy value that is not a string has no split, and the call throws.
SplitThrows(cell) == Truthy(cell) /\ ~IsStr(cell)

SomeSplitThrows(data, header) == \E i \in 1..Len(data) : SplitThrows(data[i][header])

UnknownReferencesThrows(clientsData) == SomeSplitThrows(clientsData, "Requested TaskIDs")

OverloadedWorkersThrows(workersData) ==
  \E w \in 1..Len(workersData) :
    /\ SplitThrows(workersData[w]["AvailableSlots"])
    /\ ~ToNumberV(workersData[w]["MaxLoadPerPhase"]).nan

SkillCoverageThrows(tasksData, workersData) ==
  SomeSplitThrows(workersData, "Skills") \/ SomeSplitThrows(tasksData, "RequiredSkills")

MaxConcurrencyThrows(tasksData, workersData) ==
  \E i \in 1..Len(tasksData) :
    /\ ~ToNumberV(tasksData[i]["MaxConcurrent"]).nan
    /\ ToNumberV(tasksData[i]["MaxConcurrent"]).v > 0
    /\ Truthy(tasksData[i]["RequiredSkills"])
    /\ \/ SplitThrows(tasksData[i]["RequiredSkills"])
       \/ SomeSplitThrows(workersData, "Skills")

PhaseSaturationThrows(tasksData, workersData) ==
  SomeSplitThrows(workersData, "AvailableSlots")
    \/ SomeSplitThrows(tasksData, "PreferredPhases")

\* The exception a call of the orchestrator ends with instead of returning.
TypeError == [t |-> "TypeError"]

\* Some validator the orchestrator calls throws.
Throws(allData) ==
  \/ OverloadedWorkersThrows(allData.workers.data)
  \/ /\ Len(allData.clients.data) > 0 /\ Len(allData.tasks.data) > 0
     /\ UnknownReferencesThrows(allData.clients.data)
  \/ /\ Len(allData.tasks.data) > 0 /\ Len(allData.workers.data) > 0
     /\ \/ SkillCoverageThrows(allData.tasks.data, allData.workers.data)
        \/ MaxConcurrencyThrows(allData.tasks.data, allData.workers.data)
        \/ PhaseSaturationThrows(allData.tasks.data, allData.workers.data)

\* As CrossTaskErrors, but the phase results are pushed first.
CrossTaskErrors_PhasesFirst(tasksData, workersData) ==
  (IF Len(tasksData) > 0 /\ Len(workersData) > 0
   THEN validatePhaseSlotSaturation(tasksData, workersData) ELSE <<>>)
  \o (IF Len(tasksData) > 0 /\ Len(workersData) > 0
      THEN validateSkillCoverageMatrix(tasksData, workersData)
           \o validateMaxConcurrencyFeasibility(tasksData, workersData)
      ELSE <<>>)

\* The two gated blocks that push the cross-entity results of the tasks.
CrossTaskErrors(tasksData, workersData) ==
  (IF Len(tasksData) > 0 /\ Len(workersData) > 0
   THEN validateSkillCoverageMatrix(tasksData, workersData)
        \o validateMaxConcurrencyFeasibility(tasksData, workersData)
   ELSE <<>>)
  \o (IF Len(tasksData) > 0 /\ Len(workersData) > 0
      THEN validatePhaseSlotSaturation(tasksData, workersData) ELSE <<>>)

\* As AllErrors, but the cross-entity checks run whatever the datasets hold.
AllErrors_Ungated(allData) ==
  LET clients == allData.clients
      workers == allData.workers
      tasks == allData.tasks
  IN [clients |->
        validateRequiredColumns(clients.headers, ClientsRequired)
        \o validateDuplicateIds(clients.data, "ClientID")
        \o validateOutOfRange(clients.data, "PriorityLevel", Finite(1), Finite(5))
        \o validateBrokenJson(clients.data, "AttributesJSON")
        \o validateUnknownReferences(clients.data, tasks.data),
      workers |->
        validateRequiredColumns(workers.headers, WorkersRequired)
        \o validateDuplicateIds(workers.data, "WorkerID")
        \o validateOverloadedWorkers(workers.data),
      tasks |->
        validateRequiredColumns(tasks.headers, TasksRequired)
        \o validateDuplicateIds(tasks.data, "TaskID")
        \o validateOutOfRange(tasks.data, "Duration", Finite(1), Infinity)
        \o validateOutOfRange(tasks.data, "MaxConcurrent", Finite(1), Infinity)
        \o validateSkillCoverageMatrix(tasks.data, workers.data)
        \o validateMaxConcurrencyFeasibility(tasks.data, workers.data)
        \o validatePhaseSlotSaturation(tasks.data, workers.data)]

\* The mapping runDeterministicValidations returns when nothing throws.
AllErrors(allData) ==
  LET clients == allData.clients
      workers == allData.workers
      tasks == allData.tasks
  IN [clients |->
        validateRequiredColumns(clients.headers, ClientsRequired)
        \o validateDuplicateIds(clients.data, "ClientID")
        \o validateOutOfRange(clients.data, "PriorityLevel", Finite(1), Finite(5))
        \o validateBrokenJson(clients.data, "AttributesJSON")
        \o (IF Len(clients.data) > 0 /\ Len(tasks.data) > 0
            THEN validateUnknownReferences(clients.data, tasks.data) ELSE <<>>),
      workers |->
        validateRequiredColumns(workers.headers, WorkersRequired)
        \o validateDuplicateIds(workers.data, "WorkerID")
        \o validateOverloadedWorkers(workers.data),
      tasks |->
        validateRequiredColumns(tasks.headers, TasksRequired)
        \o validateDuplicateIds(tasks.data, "TaskID")
        \o validateOutOfRange(tasks.data, "Duration", Finite(1), Infinity)
        \o validateOutOfRange(tasks.data, "MaxConcurrent", Finite(1), Infinity)
        \o CrossTaskErrors(tasks.data, workers.data)]

\* As runDeterministicValidations, but only an entity with rows gets a key.
runDeterministicValidations_LoadedOnly(allData) ==
  IF Throws(allData) THEN TypeError
  ELSE [k \in {e \in {"clients", "workers", "tasks"} : Len(allData[e].data) > 0} |->
          AllErrors(allData)[k]]

runDeterministicValidations(allData) ==
  IF Throws(allData) THEN TypeError ELSE AllErrors(allData)

\* ------------------------------------------------------------------ state
VARIABLES
  pc,                  \* where the run is
  value,               \* the cell value handed to validateAndNormalizeList
  options,             \* its options {numeric, allowRanges}
  result,              \* what the call returned
  again,               \* what a second call, on result.normalized, returned
  clientsData,         \* the clients dataset {data, headers}
  workersData,         \* the workers dataset
  tasksData,           \* the tasks dataset
  allValidationErrors, \* the published result of the last validation run
  scenario,            \* which columns the drawn datasets vary
  rangeI,              \* i of the loop that expands a range (tenths)
  rangeEnd,            \* end, the bound of that loop (tenths)
  normalizedParts      \* the numbers the loop has pushed

loopVars == <<rangeI, rangeEnd, normalizedParts>>
normalizerVars == <<value, options, result, again, loopVars>>
dataVars == <<clientsData, workersData, tasksData>>
vars == <<pc, value, options, result, again, clientsData, workersData, tasksData,
          allValidationErrors, scenario, rangeI, rangeEnd, normalizedParts>>

\* No range is being expanded.
NoLoop == rangeI = 0 /\ rangeEnd = 0 /\ normalizedParts = <<>>

\* useState({ data: [], headers: [], fileName: '' })
EmptyData == [data |-> <<>>, headers |-> <<>>]
\* useState<Record<string, ValidationResult[]>>({}): the object without keys.
NoErrors == <<>>
NoResult == [normalized |-> Undefined, error |-> Undefined]

\* ------------------------------------------------- inputs of the normalizer
Chars == {"1", "2", "a", "-", ",", " ", "[", "]", "."}

\* The input is within what the number model covers: no run of digits longer
\* than MaxDigits, at most one digit after a decimal point.
InScope(s) ==
  /\ \A i \in 1..Len(s) :
       (i + MaxDigits <= Len(s)) => \E j \in i..(i + MaxDigits) : ~IsDigit(s[j])
  /\ \A i \in 1..Len(s) :
       (s[i] = "." /\ i + 2 <= Len(s)) => ~(IsDigit(s[i + 1]) /\ IsDigit(s[i + 2]))

ShortStrings == {s \in UNION {[1..n -> Chars] : n \in 0..MaxLen} : InScope(s)}

\* The examples of the specification and longer cases of the same shapes.
Examples ==
  { <<"1", "-", "3", ",", " ", "5">>,
    <<"5", "-", "2">>,
    <<"[", "[", "a", "]", "]">>,
    <<"[", "a", "]", ",", " ", "[", "b", "]">>,
    <<"1", ".", "5", "-", "3">>,
    <<"1", "-", "2", "-", "3">>,
    <<"b", ",", " ", "a", "-", "b", ",", "a", ",", "b">>,
    <<"[", "3", ",", "1", "-", "2", ",", "1", "0", "]">> }

NonStrings == {Undefined, Num(0), Num(50), Bool(TRUE), Bool(FALSE), Obj}

Inputs == {Str(s) : s \in ShortStrings \cup Examples} \cup NonStrings

Options == [numeric : BOOLEAN, allowRanges : BOOLEAN]

NormalizerInit ==
  /\ pc = "call"
  /\ value \in Inputs
  /\ options \in Options
  /\ result = NoResult
  /\ again = NoResult
  /\ clientsData = EmptyData /\ workersData = EmptyData /\ tasksData = EmptyData
  /\ allValidationErrors = NoErrors
  /\ scenario = "normalizer"
  /\ NoLoop

\* const result = validateAndNormalizeList(value, options)
Normalize ==
  /\ pc = "call"
  /\ result' = validateAndNormalizeList(value, options)
  /\ pc' = "returned"
  /\ UNCHANGED <<value, options, again, loopVars, dataVars, allValidationErrors, scenario>>

\* The normalized value written back and normalized once more.
NormalizeAgain ==
  /\ pc = "returned"
  /\ result.normalized # Undefined
  /\ again' = validateAndNormalizeList(result.normalized, options)
  /\ pc' = "renormalized"
  /\ UNCHANGED <<value, options, result, loopVars, dataVars, allValidationErrors, scenario>>

NormalizerNext == Normalize \/ NormalizeAgain

NormalizerSpec == NormalizerInit /\ [][NormalizerNext]_vars

\* ------------------------------------------------ the loop over a range
\* The most elements the array normalizedParts takes before push throws a
\* RangeError (2^32 - 1 in the engine, if its memory lasts that long).
MaxArrayLength == 6

\* The bounds written in a range token.
RangeEnds ==
  { <<"1">>, <<"2">>, <<"4">>, <<"1", ".", "5">>, <<>>, <<"a">>, <<" ", "3">>, InfinityText }

\* The tokens start-end, and two of another shape.
RangeTokens ==
  {a \o <<"-">> \o b : a \in RangeEnds, b \in RangeEnds}
    \cup {<<"1", "-", "2", "-", "4">>, <<"-", "1", "-", "2">>}

RangeLoopInit ==
  /\ pc = "item"
  /\ value \in {Str(t) : t \in RangeTokens}
  /\ options = PhasesMode
  /\ result = NoResult
  /\ again = NoResult
  /\ clientsData = EmptyData /\ workersData = EmptyData /\ tasksData = EmptyData
  /\ allValidationErrors = NoErrors
  /\ scenario = "range"
  /\ NoLoop

\* The checks on a range token found bounds: for (let i = start; ...
StartLoop(bounds) ==
  IF bounds.error # Undefined
  THEN /\ result' = NumericResult(bounds)
       /\ pc' = "returned"
       /\ UNCHANGED loopVars
  ELSE /\ rangeI' = bounds.parts[1]
       /\ rangeEnd' = bounds.parts[2]
       /\ pc' = "loop"
       /\ UNCHANGED <<result, normalizedParts>>

\* The bounds of a range token, where RangeBounds has the numbers pushed.
LoopBounds(item, start, end) ==
  IF start.nan \/ end.nan THEN Failed("Non-numeric value in range", item)
  ELSE IF start.v > end.v THEN Failed("Invalid range, start > end", item)
  ELSE Pushed(<<start.v, end.v>>)

LoopItem(item, parts) ==
  IF Len(parts) # 2 THEN Failed("Invalid range format", item)
  ELSE LoopBounds(item, ToNumber(parts[1]), ToNumber(parts[2]))

\* The token is split and checked; a well-formed range enters the loop.
EnterRange ==
  /\ pc = "item"
  /\ \E parts \in {MapTrim(Split(value.s, "-"))} :
       \E bounds \in {LoopItem(value.s, parts)} : StartLoop(bounds)
  /\ UNCHANGED <<value, options, again, dataVars, allValidationErrors, scenario>>

\* i++: Infinity + 1 is Infinity.
Increment(n) == IF n = InfinityValue THEN InfinityValue ELSE n + 10

\* i <= end: normalizedParts.push(i); i++
LoopPush ==
  /\ pc = "loop"
  /\ rangeI <= rangeEnd
  /\ Len(normalizedParts) < MaxArrayLength
  /\ normalizedParts' = Append(normalizedParts, rangeI)
  /\ rangeI' = Increment(rangeI)
  /\ UNCHANGED <<pc, value, options, result, again, rangeEnd, dataVars,
                 allValidationErrors, scenario>>

\* i <= end with the array full: push throws.
LoopOverflow ==
  /\ pc = "loop"
  /\ rangeI <= rangeEnd
  /\ Len(normalizedParts) = MaxArrayLength
  /\ pc' = "thrown"
  /\ UNCHANGED <<normalizerVars, dataVars, allValidationErrors, scenario>>

\* i > end: the loop is left and the list of the one token returned:
\* [...new Set(normalizedParts)].sort((a, b) => a - b).join(', ')
LoopExit ==
  /\ pc = "loop"
  /\ rangeI > rangeEnd
  /\ \E unique \in {Dedupe(normalizedParts)} :
       \E sorted \in {SortNumbers(unique)} :
         \E strings \in {NumbersToStrings(sorted)} :
           result' = Normalized(Join(strings))
  /\ pc' = "returned"
  /\ UNCHANGED <<value, options, again, loopVars, dataVars, allValidationErrors, scenario>>

RangeLoopNext == EnterRange \/ LoopPush \/ LoopOverflow \/ LoopExit

\* The call runs on: a step that can be taken is taken.
RangeLoopSpec == RangeLoopInit /\ [][RangeLoopNext]_vars /\ WF_vars(RangeLoopNext)

\* --------------------------------------------------- inputs of the validators
ClientColumns == {"ClientID", "PriorityLevel", "Requested TaskIDs", "AttributesJSON"}
WorkerColumns == {"WorkerID", "Skills", "AvailableSlots", "MaxLoadPerPhase"}
TaskColumns == {"TaskID", "Duration", "RequiredSkills", "PreferredPhases", "MaxConcurrent"}

\* A row with the given cells; the other columns of the entity are absent.
Row(columns, cells) ==
  [c \in columns |-> IF c \in DOMAIN cells THEN cells[c] ELSE Undefined]

\* The datasets of at most n rows drawn from a set of rows; a loaded file carries
\* the headers, the initial empty dataset none.
Datasets(rows, required, n) ==
  {[data |-> d, headers |-> IF d = <<>> THEN <<>> ELSE required] :
     d \in UNION {[1..k -> rows] : k \in 0..n}}

IdCells(a, b) == {Str(a), Str(b), Str(<<>>), Undefined}

ClientIdRows ==
  {Row(ClientColumns, [ClientID |-> id]) : id \in IdCells(<<"C", "1">>, <<"C", "2">>)}
WorkerIdRows ==
  {Row(WorkerColumns, [WorkerID |-> id]) : id \in IdCells(<<"W", "1">>, <<"W", "2">>)}
TaskIdRows ==
  {Row(TaskColumns, [TaskID |-> id]) : id \in IdCells(<<"T", "1">>, <<"T", "2">>)}

RequestedCells ==
  { Str(<<"T", "1", ",", " ", "T", "9">>),
    Str(<<"T", "2", ",", "T", "1", ",", "T", "2">>),
    Str(<<"[", "T", "9", "]">>),
    Str(<<"T", "1", ",", "T", "-", "9">>),
    Str(<<>>),
    Undefined }
RefClientRows ==
  {Row(ClientColumns, ("Requested TaskIDs" :> r)) : r \in RequestedCells}
TaskIdRow(id) == Row(TaskColumns, [TaskID |-> Str(id)])
RefTaskFiles ==
  { <<TaskIdRow(<<"T", "1">>)>>,
    <<TaskIdRow(<<"T", "1">>), TaskIdRow(<<"T", "2">>)>>,
    <<TaskIdRow(<<"T", "-", "9">>)>>,
    <<TaskIdRow(<<"T", "2">>), TaskIdRow(<<"T", "2">>)>> }

SkillTaskRows ==
  {Row(TaskColumns, [RequiredSkills |-> c[1], MaxConcurrent |-> c[2]]) :
     c \in { <<Str(<<"w">>), Str(<<"1">>)>>,
             <<Str(<<"a", ",", " ", "w">>), Str(<<"2">>)>>,
             <<Str(<<"b", "-", "c", ",", "a">>), Str(<<"1">>)>>,
             <<Undefined, Str(<<"2">>)>> }}
SkillWorkerRow(skills) == Row(WorkerColumns, [Skills |-> skills])
SkillWorkerRows ==
  {SkillWorkerRow(k) : k \in {Str(<<"w">>), Str(<<"a">>), Undefined}}
SkillWorkerFiles ==
  {<<row>> : row \in SkillWorkerRows} \cup {<<SkillWorkerRow(Str(<<"[", "w", ",", "a", "]">>))>>}

PhaseTaskRows ==
  {Row(TaskColumns, [Duration |-> c[1], PreferredPhases |-> c[2]]) :
     c \in { <<Str(<<"2">>), Str(<<"1">>)>>,
             <<Str(<<"1">>), Str(<<"1", "-", "2">>)>>,
             <<Str(<<"0">>), Str(<<"1">>)>>,
             <<Str(<<"-", "1">>), Str(<<"2">>)>>,
             <<Str(<<"x">>), Str(<<"1">>)>>,
             <<Undefined, Str(<<"1">>)>>,
             <<Str(<<"2">>), Str(<<"2", "-", "1">>)>>,
             <<Str(<<"2">>), Undefined>> }}
PhaseWorkerRow(slots, load) ==
  Row(WorkerColumns, [AvailableSlots |-> slots, MaxLoadPerPhase |-> load])
PhaseWorkerFiles ==
  { <<PhaseWorkerRow(Str(<<"1">>), Str(<<"1">>))>>,
    <<PhaseWorkerRow(Str(<<"2", ",", "1">>), Str(<<"1">>)),
      PhaseWorkerRow(Str(<<"1">>), Str(<<"1">>))>>,
    <<PhaseWorkerRow(Str(<<"3">>), Undefined)>>,
    <<PhaseWorkerRow(Str(<<"1", "-", "2">>), Str(<<"1">>)),
      PhaseWorkerRow(Str(<<"2">>), Str(<<"2">>))>>,
    <<PhaseWorkerRow(Str(<<"1">>), Str(<<"x">>)),
      PhaseWorkerRow(Str(<<"2">>), Str(<<"1", ".", "5">>))>>,
    <<PhaseWorkerRow(Str(<<"1">>), Str(<<"-", "1">>))>> }

JsonCells ==
  { Str(<<"{", "}">>),
    Str(<<"{", "\"", "a", "\"", ":", "1", "}">>),
    Str(<<"[", "1", "]">>),
    Str(<<" ", "1", " ">>),
    Str(<<"{">>),
    Str(<<"a">>),
    Str(<<>>),
    Undefined }
JsonClientRows == {Row(ClientColumns, [AttributesJSON |-> j]) : j \in JsonCells}

\* results.meta.fields of the files: some of the required columns in the
\* schema's order or in the reverse order, with or without a column of no schema.
Reverse(xs) == [i \in 1..Len(xs) |-> xs[Len(xs) + 1 - i]]
HeaderLists(required) ==
  LET some == {FilterSeq(required, S) : S \in SUBSET Elems(required)}
  IN some \cup {Reverse(h) : h \in some} \cup {Append(h, "Notes") : h \in some}
HeaderFiles(columns, required) ==
  {[data |-> <<Row(columns, <<>>)>>, headers |-> h] : h \in HeaderLists(required)}

PriorityCells ==
  { Str(<<"0">>), Str(<<"1">>), Str(<<"3">>), Str(<<"5">>), Str(<<"6">>),
    Str(<<"5", ".", "5">>), Str(<<"-", "1">>), Str(<<"x">>), Str(<<" ">>),
    Str(<<>>), Undefined }
RangeClientRows == {Row(ClientColumns, [PriorityLevel |-> c]) : c \in PriorityCells}
RangeTaskRows ==
  {Row(TaskColumns, [Duration |-> c[1], MaxConcurrent |-> c[2]]) :
     c \in { <<Str(<<"1">>), Str(<<"0">>)>>,
             <<Str(<<"0">>), Str(<<"1">>)>>,
             <<Str(<<"0", ".", "5">>), Str(<<"2">>)>>,
             <<Str(<<"1", "0">>), Str(<<"-", "1">>)>>,
             <<Str(<<"x">>), Str(<<>>)>>,
             <<Undefined, Undefined>> }}

SlotWorkerRows ==
  {Row(WorkerColumns, [AvailableSlots |-> c[1], MaxLoadPerPhase |-> c[2]]) :
     c \in { <<Str(<<"1">>), Str(<<"2">>)>>,
             <<Str(<<"1", ",", "2">>), Str(<<"2">>)>>,
             <<Str(<<"1", ",", " ", "1">>), Str(<<"2">>)>>,
             <<Str(<<"[", "2", ",", "1", "]">>), Str(<<"1", ".", "5">>)>>,
             <<Str(<<"1", "-", "2">>), Str(<<"1">>)>>,
             <<Str(<<"a">>), Str(<<"x">>)>>,
             <<Str(<<",">>), Str(<<"1">>)>>,
             <<Str(<<"1">>), Undefined>>,
             <<Undefined, Str(<<"2">>)>> }}

\* The files of a run whose cells are then replaced by suggested values.
SuggestionClientFile ==
  <<Row(ClientColumns, ("Requested TaskIDs" :> Str(<<"T", "1">>)))>>
SuggestionWorkerFile ==
  <<Row(WorkerColumns, [Skills |-> Str(<<"w">>), AvailableSlots |-> Str(<<"1">>),
                        MaxLoadPerPhase |-> Str(<<"1">>)])>>
SuggestionTaskFile ==
  <<Row(TaskColumns, [TaskID |-> Str(<<"T", "1">>), Duration |-> Str(<<"1">>),
                      RequiredSkills |-> Str(<<"w">>), PreferredPhases |-> Str(<<"1">>),
                      MaxConcurrent |-> Str(<<"1">>)])>>

\* The files of a run whose cells are then edited and left: list cells that are
\* not in normal form, in normal form, malformed, empty and absent.
BlurClientFiles ==
  {<<Row(ClientColumns, ("Requested TaskIDs" :> c))>> :
     c \in {Str(<<"T", "2", ",", "T", "1", ",", "T", "2">>), Str(<<"T", "1">>),
            Str(<<>>), Undefined}}
BlurWorkerFiles ==
  {<<Row(WorkerColumns, [AvailableSlots |-> c[1], Skills |-> c[2],
                         MaxLoadPerPhase |-> Str(<<"1">>)])>> :
     c \in { <<Str(<<"2", ",", "1">>), Str(<<"b", ",", "a">>)>>,
             <<Str(<<"a">>), Str(<<"w">>)>>,
             <<Str(<<"1">>), Str(<<>>)>>,
             <<Undefined, Undefined>> }}
BlurTaskFiles ==
  {<<Row(TaskColumns, [TaskID |-> Str(<<"T", "1">>), Duration |-> Str(<<"1">>),
                       MaxConcurrent |-> Str(<<"1">>),
                       PreferredPhases |-> c[1], RequiredSkills |-> c[2]])>> :
     c \in { <<Str(<<"1", "-", "2">>), Str(<<"w", ",", " ", "w">>)>>,
             <<Str(<<"2", "-", "1">>), Str(<<"w">>)>>,
             <<Undefined, Undefined>> }}

\* e.target.value of an edited cell: the text typed.
TypedValues == {Str(<<"T", "1", ",", "T", "1">>), Str(<<>>)}

\* suggestion.suggestedValue: a field of the parsed response, of any JSON type.
SuggestedValues == {Num(50), Num(0), Bool(TRUE), Obj}

\* The list columns of an entity.
ListColumns(entityType) ==
  CASE entityType = "clients" -> {"Requested TaskIDs"}
    [] entityType = "workers" -> {"AvailableSlots", "Skills"}
    [] OTHER -> {"PreferredPhases", "RequiredSkills"}

\* The files a run uploads: which columns their rows fill.
Scenarios ==
  {"ids", "references", "skills", "phases", "json", "headers", "ranges", "slots", "suggestions",
   "blur"}

\* The runs that upload one file only.
SingleFile == {"ids", "json", "headers", "ranges", "slots"}

\* A parsed file of at least one row, every column in its header.
Parsed(files, required) == {[data |-> d, headers |-> required] : d \in files}
Uploads(rows, required, n) == Datasets(rows, required, n) \ {EmptyData}

\* The parsed files an upload can deliver for an entity.
Files(kind, entityType) ==
  CASE kind = "ids" /\ entityType = "clients" ->
         Uploads(ClientIdRows, ClientsRequired, MaxIdRows)
    [] kind = "ids" /\ entityType = "workers" ->
         Uploads(WorkerIdRows, WorkersRequired, MaxIdRows)
    [] kind = "ids" /\ entityType = "tasks" ->
         Uploads(TaskIdRows, TasksRequired, MaxIdRows)
    [] kind = "references" /\ entityType = "clients" ->
         Uploads(RefClientRows, ClientsRequired, MaxRows)
    [] kind = "references" /\ entityType = "tasks" -> Parsed(RefTaskFiles, TasksRequired)
    [] kind = "skills" /\ entityType = "tasks" ->
         Uploads(SkillTaskRows, TasksRequired, MaxRows)
    [] kind = "skills" /\ entityType = "workers" -> Parsed(SkillWorkerFiles, WorkersRequired)
    [] kind = "phases" /\ entityType = "tasks" ->
         Uploads(PhaseTaskRows, TasksRequired, MaxRows)
    [] kind = "phases" /\ entityType = "workers" -> Parsed(PhaseWorkerFiles, WorkersRequired)
    [] kind = "headers" /\ entityType = "clients" -> HeaderFiles(ClientColumns, ClientsRequired)
    [] kind = "headers" /\ entityType = "workers" -> HeaderFiles(WorkerColumns, WorkersRequired)
    [] kind = "headers" /\ entityType = "tasks" -> HeaderFiles(TaskColumns, TasksRequired)
    [] kind = "ranges" /\ entityType = "clients" ->
         Uploads(RangeClientRows, ClientsRequired, MaxRows)
    [] kind = "ranges" /\ entityType = "tasks" ->
         Uploads(RangeTaskRows, TasksRequired, MaxRows)
    [] kind = "slots" /\ entityType = "workers" ->
         Uploads(SlotWorkerRows, WorkersRequired, MaxRows)
    [] kind = "suggestions" /\ entityType = "clients" ->
         Parsed({SuggestionClientFile}, ClientsRequired)
    [] kind = "suggestions" /\ entityType = "workers" ->
         Parsed({SuggestionWorkerFile}, WorkersRequired)
    [] kind = "suggestions" /\ entityType = "tasks" ->
         Parsed({SuggestionTaskFile}, TasksRequired)
    [] kind = "blur" /\ entityType = "clients" -> Parsed(BlurClientFiles, ClientsRequired)
    [] kind = "blur" /\ entityType = "workers" -> Parsed(BlurWorkerFiles, WorkersRequired)
    [] kind = "blur" /\ entityType = "tasks" -> Parsed(BlurTaskFiles, TasksRequired)
    [] kind = "json" /\ entityType = "clients" ->
         Uploads(JsonClientRows, ClientsRequired, MaxRows)
    [] OTHER -> {}

\* The page as constructed: no data, no results, the first effect pending.
ValidatorInit ==
  /\ pc = "mounted"
  /\ value = Undefined /\ options = StringMode /\ result = NoResult /\ again = NoResult
  /\ clientsData = EmptyData /\ workersData = EmptyData /\ tasksData = EmptyData
  /\ allValidationErrors = NoErrors
  /\ scenario \in Scenarios
  /\ NoLoop

\* const results = runDeterministicValidations(allData);
\* setAllValidationErrors(results): not reached when the call throws.
setAllValidationErrors(results) ==
  IF results = TypeError
  THEN pc' = "thrown" /\ UNCHANGED allValidationErrors
  ELSE /\ allValidationErrors' = results
       /\ pc' = IF pc = "reloaded" THEN "revalidated" ELSE "validated"

\* As triggerValidation, but the run stores the normalized Requested TaskIDs
\* in the client rows it has read.
triggerValidation_StoresNormalized ==
  /\ pc \in {"mounted", "loaded", "reloaded"}
  /\ setAllValidationErrors(
       runDeterministicValidations(
         [clients |-> clientsData, workers |-> workersData, tasks |-> tasksData]))
  /\ clientsData' =
       [clientsData EXCEPT !.data =
          [i \in 1..Len(clientsData.data) |->
             [clientsData.data[i] EXCEPT !["Requested TaskIDs"] =
                validateAndNormalizeList(clientsData.data[i]["Requested TaskIDs"],
                                         StringMode).normalized]]]
  /\ UNCHANGED <<normalizerVars, workersData, tasksData, scenario>>

\* triggerValidation, run by the effect after the mount and after every change
\* of a dataset: the orchestrator on the current datasets, its result published
\* whole.
triggerValidation ==
  /\ pc \in {"mounted", "loaded", "reloaded"}
  /\ setAllValidationErrors(
       runDeterministicValidations(
         [clients |-> clientsData, workers |-> workersData, tasks |-> tasksData]))
  /\ UNCHANGED <<normalizerVars, dataVars, scenario>>

\* handleFileUpload: the parsed file replaces the entity's dataset. The
\* files of single-entity checks are uploaded one per run.
handleFileUpload ==
  /\ pc \in {"validated", "revalidated"}
  /\ \E entityType \in {"clients", "workers", "tasks"} :
       \E newEntityData \in Files(scenario, entityType) :
         /\ scenario \in SingleFile =>
              clientsData = EmptyData /\ workersData = EmptyData /\ tasksData = EmptyData
         /\ CASE entityType = "clients" ->
                   /\ clientsData = EmptyData
                   /\ clientsData' = newEntityData
                   /\ UNCHANGED <<workersData, tasksData>>
              [] entityType = "workers" ->
                   /\ workersData = EmptyData
                   /\ workersData' = newEntityData
                   /\ UNCHANGED <<clientsData, tasksData>>
              [] OTHER ->
                   /\ tasksData = EmptyData
                   /\ tasksData' = newEntityData
                   /\ UNCHANGED <<clientsData, workersData>>
  /\ pc' = "loaded"
  /\ UNCHANGED <<normalizerVars, allValidationErrors, scenario>>

\* handleFileUpload of the workers file again, with one more row.
AddWorkerRow ==
  /\ pc \in {"validated", "revalidated"}
  /\ scenario = "skills"
  /\ workersData # EmptyData
  /\ Len(workersData.data) < MaxRows
  /\ \E row \in SkillWorkerRows :
       workersData' = [data |-> Append(workersData.data, row), headers |-> WorkersRequired]
  /\ pc' = "reloaded"
  /\ UNCHANGED <<normalizerVars, clientsData, tasksData, allValidationErrors, scenario>>

\* newData[suggestion.rowIndex][suggestion.header] = suggestion.suggestedValue
WithCell(entityData, rowIndex, header, suggestedValue) ==
  [entityData EXCEPT !.data[rowIndex + 1][header] = suggestedValue]

\* applySuggestion: the suggested value replaces the cell of a loaded row. The
\* call of triggerValidation that ends the handler runs on the datasets of the
\* present render; the effect then runs it on the new ones.
applySuggestion ==
  /\ pc \in {"validated", "revalidated"}
  /\ scenario = "suggestions"
  /\ \E entityType \in {"clients", "workers", "tasks"} :
       \E header \in ListColumns(entityType), suggestedValue \in SuggestedValues :
         CASE entityType = "clients" ->
                /\ Len(clientsData.data) > 0
                /\ clientsData' = WithCell(clientsData, 0, header, suggestedValue)
                /\ UNCHANGED <<workersData, tasksData>>
           [] entityType = "workers" ->
                /\ Len(workersData.data) > 0
                /\ workersData' = WithCell(workersData, 0, header, suggestedValue)
                /\ UNCHANGED <<clientsData, tasksData>>
           [] OTHER ->
                /\ Len(tasksData.data) > 0
                /\ tasksData' = WithCell(tasksData, 0, header, suggestedValue)
                /\ UNCHANGED <<clientsData, workersData>>
  /\ allValidationErrors' =
       runDeterministicValidations(
         [clients |-> clientsData, workers |-> workersData, tasks |-> tasksData])
  /\ pc' = "loaded"
  /\ UNCHANGED <<normalizerVars, scenario>>

\* listValidationSchemas and getValidationOptions of the cell handlers.
getValidationOptions(entityType, header) ==
  CASE entityType = "clients" /\ header = "Requested TaskIDs" -> StringMode
    [] entityType = "workers" /\ header = "AvailableSlots" -> SlotsMode
    [] entityType = "workers" /\ header = "Skills" -> StringMode
    [] entityType = "tasks" /\ header = "PreferredPhases" -> PhasesMode
    [] entityType = "tasks" /\ header = "RequiredSkills" -> StringMode
    [] OTHER -> Undefined

\* entityType === 'clients' ? clientsData : entityType === 'workers' ? ...
EntityData(entityType) ==
  CASE entityType = "clients" -> clientsData
    [] entityType = "workers" -> workersData
    [] OTHER -> tasksData

\* The setter of the entity, called with the dataset that holds the new cell.
SetCell(entityType, rowIndex, header, cell) ==
  CASE entityType = "clients" ->
         /\ clientsData' = WithCell(clientsData, rowIndex, header, cell)
         /\ UNCHANGED <<workersData, tasksData>>
    [] entityType = "workers" ->
         /\ workersData' = WithCell(workersData, rowIndex, header, cell)
         /\ UNCHANGED <<clientsData, tasksData>>
    [] OTHER ->
         /\ tasksData' = WithCell(tasksData, rowIndex, header, cell)
         /\ UNCHANGED <<clientsData, workersData>>

EntityColumns(entityType) ==
  CASE entityType = "clients" -> ClientColumns
    [] entityType = "workers" -> WorkerColumns
    [] OTHER -> TaskColumns

\* The cells of the rendered tables: an entity, a row of its dataset, a column.
Cells ==
  {c \in {"clients", "workers", "tasks"} \X (0..(MaxRows - 1)) \X
          (ClientColumns \cup WorkerColumns \cup TaskColumns) :
     /\ c[2] < Len(EntityData(c[1]).data)
     /\ c[3] \in EntityColumns(c[1])}

\* handleCellChange: the text typed replaces the cell; the effect then runs the
\* validation on the new dataset.
handleCellChange ==
  /\ pc \in {"validated", "revalidated"}
  /\ scenario = "blur"
  /\ \E c \in Cells, typed \in TypedValues :
       /\ c[1] = "clients" /\ c[3] = "Requested TaskIDs"
       /\ SetCell(c[1], c[2], c[3], typed)
  /\ pc' = "loaded"
  /\ UNCHANGED <<normalizerVars, allValidationErrors, scenario>>

\* As BlurWrites, but no result is ever written back.
BlurWrites_Never(cellValue, cellResult) == FALSE

\* result.normalized !== undefined && result.normalized !== cellValue
BlurWrites(cellValue, cellResult) ==
  cellResult.normalized # Undefined /\ cellResult.normalized # cellValue

\* The body of "if (options)": the list is normalized from String(cellValue),
\* and a result that differs from the cell is stored in it.
BlurCell(entityType, rowIndex, header, cellValue, cellOptions) ==
  \E cellResult \in {validateAndNormalizeList(Str(ToStringV(cellValue)), cellOptions)} :
    IF BlurWrites(cellValue, cellResult)
    THEN SetCell(entityType, rowIndex, header, cellResult.normalized) /\ pc' = "loaded"
    ELSE UNCHANGED dataVars /\ pc' = "revalidated"

\* const options = getValidationOptions(entityType, header); if (options) {...}
BlurData(c) ==
  IF getValidationOptions(c[1], c[3]) # Undefined
  THEN BlurCell(c[1], c[2], c[3], EntityData(c[1]).data[c[2] + 1][c[3]],
                getValidationOptions(c[1], c[3]))
  ELSE UNCHANGED dataVars /\ pc' = "revalidated"

\* handleCellBlur(entityType, rowIndex, header) of the cell c: a list cell is
\* normalized in place; the handler ends with triggerValidation, which runs on
\* the datasets of the present render (the results are then those of a run
\* made again), and the effect runs it once more when the cell was written.
handleCellBlurAt(c) ==
  /\ pc \in {"validated", "revalidated"}
  /\ scenario = "blur"
  /\ BlurData(c)
  /\ allValidationErrors' =
       runDeterministicValidations(
         [clients |-> clientsData, workers |-> workersData, tasks |-> tasksData])
  /\ UNCHANGED <<normalizerVars, scenario>>

\* The blur event of any cell of the rendered tables.
handleCellBlur == \E c \in Cells : handleCellBlurAt(c)

ValidatorNext ==
  \/ triggerValidation
  \/ handleFileUpload
  \/ AddWorkerRow
  \/ applySuggestion
  \/ handleCellChange
  \/ handleCellBlur

ValidatorSpec == ValidatorInit /\ [][ValidatorNext]_vars

\* ------------------------------------------------- claims: the normalizer
Returned == pc \in {"returned", "renormalized"}
StringInput == IsStr(value) /\ Truthy(value)

\* C1: idempotence.  When validateAndNormalizeList(v, opts) returns a normalized
\* value n, validateAndNormalizeList(n, opts) returns n again and no error.
C1_Idempotent ==
  pc = "renormalized" => again = [normalized |-> result.normalized, error |-> Undefined]

\* C2: exactly one of normalized / error is populated for a non-empty string; a
\* non-string or empty input comes back unchanged as normalized, with no error.
C2_ExactlyOne ==
  Returned =>
    IF StringInput
    THEN (result.normalized = Undefined) # (result.error = Undefined)
    ELSE result = [normalized |-> value, error |-> Undefined]

C2_Witness ==
  /\ pc = "returned"
  /\ value = Str(<<"5", "-", "2">>)
  /\ options = [numeric |-> TRUE, allowRanges |-> TRUE]
  /\ result.error = Message("Invalid range, start > end", <<"5", "-", "2">>)
  /\ result.normalized = Undefined

\* A token that is a number: it parses, and is not taken for a range.
IsNumberToken(item, allowRanges) ==
  ~(allowRanges /\ Includes(item, "-")) /\ ~ToNumber(item).nan

\* A token start-end with both bounds written, numeric, and start <= end.
IsWellFormedRange(item) ==
  /\ Includes(item, "-")
  /\ LET parts == MapTrim(Split(item, "-"))
     IN /\ Len(parts) = 2
        /\ parts[1] # <<>> /\ parts[2] # <<>>
        /\ ~ToNumber(parts[1]).nan /\ ~ToNumber(parts[2]).nan
        /\ ToNumber(parts[1]).v <= ToNumber(parts[2]).v

\* The values a token names (in tenths): the number, or every integer of the range.
NamedValues(item, allowRanges) ==
  IF allowRanges /\ Includes(item, "-")
  THEN LET parts == MapTrim(Split(item, "-"))
       IN {n \in ToNumber(parts[1]).v .. ToNumber(parts[2]).v : n % 10 = 0}
  ELSE {ToNumber(item).v}

\* The string is the numbers of set S, strictly ascending, joined with ", ".
IsAscendingListOf(out, S) ==
  LET nums == IF out = <<>> THEN <<>>
              ELSE [i \in 1..Len(Split(out, ",")) |-> ToNumber(Split(out, ",")[i])]
  IN /\ \A i \in 1..Len(nums) : ~nums[i].nan
     /\ \A i \in 1..(Len(nums) - 1) : nums[i].v < nums[i + 1].v
     /\ {nums[i].v : i \in 1..Len(nums)} = S
     /\ out = Join([i \in 1..Len(nums) |-> NumToString(nums[i].v)])

\* C3: in numeric mode, when every token is a number or (with allowRanges) a
\* well-formed range, the result is the strictly ascending duplicate-free list of
\* the values the tokens name, every range expanded to every integer in
\* [start, end], joined with ", ".
C3_NumericList ==
  (/\ Returned /\ StringInput /\ options.numeric
   /\ \A i \in 1..Len(Items(value.s)) :
        \/ IsNumberToken(Items(value.s)[i], options.allowRanges)
        \/ (options.allowRanges /\ IsWellFormedRange(Items(value.s)[i])))
  => /\ result.error = Undefined
     /\ IsStr(result.normalized)
     /\ IsAscendingListOf(result.normalized.s,
          UNION {NamedValues(Items(value.s)[i], options.allowRanges) :
                   i \in 1..Len(Items(value.s))})

\* The failure the claim assigns to a hyphenated token, "ok" for a sound range.
RangeCase(item) ==
  LET parts == MapTrim(Split(item, "-"))
  IN IF Len(parts) # 2 THEN "Invalid range format"
     ELSE IF \/ parts[1] = <<>> \/ parts[2] = <<>>
             \/ ToNumber(parts[1]).nan \/ ToNumber(parts[2]).nan
     THEN "Non-numeric value in range"
     ELSE IF ToNumber(parts[1]).v > ToNumber(parts[2]).v
     THEN "Invalid range, start > end"
     ELSE "ok"

\* C4: in numeric mode with allowRanges, a hyphenated token yields an error naming
\* it, and no normalized value, when it does not split into exactly two parts
\* (invalid range format), when a part is empty or not a number (non-numeric value
\* in range), or when start > end.  Stated for the first such token of a list.
C4_RangeErrors ==
  (Returned /\ StringInput /\ options.numeric /\ options.allowRanges)
  => \A i \in 1..Len(Items(value.s)) :
       (/\ Includes(Items(value.s)[i], "-")
        /\ RangeCase(Items(value.s)[i]) # "ok"
        /\ \A j \in 1..(i - 1) :
             \/ IsNumberToken(Items(value.s)[j], TRUE)
             \/ IsWellFormedRange(Items(value.s)[j]))
       => /\ result.normalized = Undefined
          /\ result.error = Message(RangeCase(Items(value.s)[i]), Items(value.s)[i])

\* The pieces of p between its commas (and its ends), as a set.
Pieces(p) ==
  LET marks == {0, Len(p) + 1} \cup {i \in 1..Len(p) : p[i] = ","}
  IN {SubSeq(p, i + 1, j - 1) :
        <<i, j>> \in {m \in marks \X marks :
                        m[1] < m[2] /\ \A k \in marks : ~(m[1] < k /\ k < m[2])}}

\* The plain items of a string list: trimmed, non-empty, without a hyphen.
PlainTokens(s) ==
  {t \in {Trim(x) : x \in Pieces(StripBrackets(s))} : t # <<>> /\ ~Includes(t, "-")}

\* C5: in string mode the result is exactly the trimmed, non-empty, comma-separated
\* tokens without a hyphen, each once, in lexicographic order, joined with ", ";
\* a hyphenated token is dropped and is no error.
C5_StringList ==
  (Returned /\ StringInput /\ ~options.numeric)
  => /\ result.error = Undefined
     /\ IsStr(result.normalized)
     /\ LET out == result.normalized.s
            toks == IF out = <<>> THEN <<>> ELSE MapTrim(Split(out, ","))
        IN /\ out = Join(toks)
           /\ \A i \in 1..(Len(toks) - 1) : StrLess(toks[i], toks[i + 1])
           /\ {toks[i] : i \in 1..Len(toks)} = PlainTokens(value.s)

C5_Witness ==
  /\ pc = "returned"
  /\ ~options.numeric
  /\ value = Str(<<"b", ",", " ", "a", "-", "b", ",", "a", ",", "b">>)
  /\ result.normalized = Str(<<"a", ",", " ", "b">>)

\* ------------------------------------------------- claims: the validators
Validated == pc \in {"validated", "revalidated"}

\* How many results of a list equal e.
Count(errs, e) == Cardinality({k \in 1..Len(errs) : errs[k] = e})

\* The row results of a list that name a header.
RowErrors(errs, header) ==
  FilterSeq(errs, {e \in Elems(errs) : e.rowIndex >= 0 /\ e.header = header})

IsAscending(ns) == \A k, l \in 1..Len(ns) : k < l => ns[k] < ns[l]

\* Row i's identifier is non-empty and occurs in another row.
IsDuplicated(data, idHeader, i) ==
  /\ Truthy(data[i][idHeader])
  /\ \E j \in 1..Len(data) : j # i /\ data[j][idHeader] = data[i][idHeader]

DuplicateErrorsAsClaimed(errs, data, idHeader) ==
  LET dups == RowErrors(errs, idHeader)
  IN /\ \A i \in 1..Len(data) :
          Cardinality({k \in 1..Len(dups) : dups[k].rowIndex = i - 1})
            = IF IsDuplicated(data, idHeader, i) THEN 1 ELSE 0
     /\ \A k \in 1..Len(dups) : dups[k].rowIndex < Len(data)
     /\ IsAscending([k \in 1..Len(dups) |-> dups[k].rowIndex])

\* C6: after a validation run, each dataset has exactly one duplicate-id error
\* per row whose identifier is non-empty and occurs in more than one row, in row
\* order, and none for a row whose identifier is unique or empty.
C6_DuplicateIds ==
  Validated =>
    /\ DuplicateErrorsAsClaimed(allValidationErrors.clients, clientsData.data, "ClientID")
    /\ DuplicateErrorsAsClaimed(allValidationErrors.workers, workersData.data, "WorkerID")
    /\ DuplicateErrorsAsClaimed(allValidationErrors.tasks, tasksData.data, "TaskID")

\* Rows C1, C2, C1 give exactly two errors, for rows 0 and 2.
C6_Witness ==
  /\ Validated
  /\ Len(clientsData.data) = 3
  /\ clientsData.data[1]["ClientID"] = Str(<<"C", "1">>)
  /\ clientsData.data[2]["ClientID"] = Str(<<"C", "2">>)
  /\ clientsData.data[3]["ClientID"] = Str(<<"C", "1">>)
  /\ allValidationErrors.clients =
       << ValidationResult(0, "ClientID", Message("Duplicate ID found", <<"C", "1">>)),
          ValidationResult(2, "ClientID", Message("Duplicate ID found", <<"C", "1">>)) >>

\* The distinct identifiers of a cell's normalized string list.
ListedIn(cell) ==
  IF Truthy(cell)
  THEN LET normalized == validateAndNormalizeList(cell, StringMode).normalized
       IN IF Truthy(normalized)
          THEN {MapTrim(Split(normalized.s, ","))[k] :
                  k \in 1..Len(MapTrim(Split(normalized.s, ",")))}
          ELSE {}
  ELSE {}

UnknownTaskID(i, id) ==
  ValidationResult(i - 1, "Requested TaskIDs", Message("Unknown TaskID", id))

\* C7: with clients and tasks both non-empty, the errors on "Requested TaskIDs"
\* are, for each client row, exactly one per identifier of its normalized list
\* that is the TaskID of no task row, naming it, and nothing else.
C7_UnknownReferences ==
  (Validated /\ Len(clientsData.data) > 0 /\ Len(tasksData.data) > 0) =>
    LET errs == RowErrors(allValidationErrors.clients, "Requested TaskIDs")
        taskIds == {tasksData.data[j]["TaskID"] : j \in 1..Len(tasksData.data)}
        Listed(i) == ListedIn(clientsData.data[i]["Requested TaskIDs"])
    IN /\ \A i \in 1..Len(clientsData.data) :
            \A id \in Listed(i) :
              Count(errs, UnknownTaskID(i, id)) = IF Str(id) \in taskIds THEN 0 ELSE 1
       /\ \A k \in 1..Len(errs) :
            \E i \in 1..Len(clientsData.data) :
              \E id \in Listed(i) : errs[k] = UnknownTaskID(i, id)

\* "T1, T9" against tasks holding only T1: one error, naming T9.
C7_Witness ==
  /\ Validated
  /\ Len(clientsData.data) = 1
  /\ clientsData.data[1]["Requested TaskIDs"] = Str(<<"T", "1", ",", " ", "T", "9">>)
  /\ Len(tasksData.data) = 1
  /\ tasksData.data[1]["TaskID"] = Str(<<"T", "1">>)
  /\ allValidationErrors.clients = <<UnknownTaskID(1, <<"T", "9">>)>>

MissingSkill(i, skill) ==
  ValidationResult(i - 1, "RequiredSkills",
                   Message("Required skill not found in any worker", skill))

\* In a validated state: one error per required skill no worker offers.
C8_Covered ==
  (Validated /\ Len(tasksData.data) > 0 /\ Len(workersData.data) > 0) =>
    LET errs == RowErrors(allValidationErrors.tasks, "RequiredSkills")
        offered == UNION {ListedIn(workersData.data[w]["Skills"]) :
                            w \in 1..Len(workersData.data)}
        Required(i) == ListedIn(tasksData.data[i]["RequiredSkills"])
    IN /\ \A i \in 1..Len(tasksData.data) :
            \A skill \in Required(i) :
              Count(errs, MissingSkill(i, skill)) = IF skill \in offered THEN 0 ELSE 1
       /\ \A k \in 1..Len(errs) :
            \E i \in 1..Len(tasksData.data) :
              \E skill \in Required(i) : errs[k] = MissingSkill(i, skill)

\* The re-run after a worker row was added: an error for a skill the added
\* worker offers is gone.
C8_Removed ==
  (pc = "reloaded" /\ pc' = "revalidated") =>
    LET added == workersData.data[Len(workersData.data)]
        before == RowErrors(allValidationErrors.tasks, "RequiredSkills")
        after == RowErrors(allValidationErrors'.tasks, "RequiredSkills")
    IN \A k \in 1..Len(before) :
         before[k].message.item \in ListedIn(added["Skills"])
           => Count(after, before[k]) = 0

\* C8: with tasks and workers both non-empty, each task row has exactly one
\* error per required skill absent from the union of the workers' normalized
\* skills and none for a skill some worker offers; and re-running after adding
\* a worker row that offers a missing skill removes that skill's errors.
C8_SkillCoverage == []C8_Covered /\ [][C8_Removed]_vars

\* A task requiring "w", a worker offering "a", then a worker offering "w" added:
\* the re-run has no error left.
C8_Witness ==
  /\ pc = "revalidated"
  /\ Len(tasksData.data) = 1
  /\ tasksData.data[1]["RequiredSkills"] = Str(<<"w">>)
  /\ Len(workersData.data) = 2
  /\ workersData.data[1]["Skills"] = Str(<<"a">>)
  /\ workersData.data[2]["Skills"] = Str(<<"w">>)
  /\ RowErrors(allValidationErrors.tasks, "RequiredSkills") = <<>>

\* The results of the phase-saturation check: those naming no column.
PhaseErrors ==
  FilterSeq(allValidationErrors.tasks,
            {e \in Elems(allValidationErrors.tasks) : e.header \notin TaskColumns})

Saturated(p, demand, capacity) ==
  ValidationResult(-1, PhaseHeader(p),
    Message2("Phase is saturated: Demand exceeds Capacity",
             NumToString(10 * demand), NumToString(capacity)))

\* The phases (in tenths) a task prefers / a worker is available in.
PreferredBy(task) == {PhasesOf(task["PreferredPhases"])[k] :
                        k \in 1..Len(PhasesOf(task["PreferredPhases"]))}
AvailableIn(worker) == {SlotsOf(worker["AvailableSlots"])[k] :
                          k \in 1..Len(SlotsOf(worker["AvailableSlots"]))}

\* The highest phase named by any worker or task, 0 when none (tenths).
HighestPhase ==
  LET named == {0} \cup UNION {PreferredBy(tasksData.data[i]) : i \in 1..Len(tasksData.data)}
                   \cup UNION {AvailableIn(workersData.data[w]) : w \in 1..Len(workersData.data)}
  IN CHOOSE m \in named : \A n \in named : n <= m

Phases == {p \in 1..(HighestPhase \div 10) : TRUE}

HasDuration(task) ==
  ~ToNumberV(task["Duration"]).nan /\ ToNumberV(task["Duration"]).v > 0

\* The tasks preferring phase p, whatever their Duration.
DemandAnyDuration(p) ==
  Cardinality({i \in 1..Len(tasksData.data) : 10 * p \in PreferredBy(tasksData.data[i])})

\* The tasks preferring phase p that have a Duration above 0.
DemandWithDuration(p) ==
  Cardinality({i \in 1..Len(tasksData.data) :
                 HasDuration(tasksData.data[i]) /\ 10 * p \in PreferredBy(tasksData.data[i])})

RECURSIVE SumOver(_, _)
SumOver(S, f) ==
  IF S = {} THEN 0 ELSE LET x == CHOOSE x \in S : TRUE IN f[x] + SumOver(S \ {x}, f)

\* The MaxLoadPerPhase (tenths) of the workers available in phase p, a worker
\* without a numeric MaxLoadPerPhase adding nothing.
CapacityOf(p) ==
  LET load == [w \in 1..Len(workersData.data) |->
                 ToNumberV(workersData.data[w]["MaxLoadPerPhase"])]
  IN SumOver({w \in 1..Len(workersData.data) :
                ~load[w].nan /\ 10 * p \in AvailableIn(workersData.data[w])},
             [w \in 1..Len(workersData.data) |-> load[w].v])

BothLoaded == Len(tasksData.data) > 0 /\ Len(workersData.data) > 0

\* C9 as stated: the demand of phase p counts every task row whose normalized
\* PreferredPhases includes p, also one whose Duration is absent, non-numeric,
\* zero or negative.
C9_DemandRegardlessOfDuration ==
  (Validated /\ BothLoaded) =>
    \A p \in Phases :
      /\ PhaseDemand(tasksData.data, p) = DemandAnyDuration(p)
      /\ (10 * DemandAnyDuration(p) > CapacityOf(p))
           <=> (\E k \in 1..Len(PhaseErrors) : PhaseErrors[k].header = PhaseHeader(p))

\* C9, amended: the demand of phase p is the number of task rows with a numeric
\* Duration above 0 whose normalized PreferredPhases (ranges expanded) includes
\* p, each adding exactly 1 whatever the size of its Duration; a task whose
\* Duration is absent, non-numeric, zero or negative adds nothing; a saturated
\* phase reports that demand.
C9_DemandOfValidDurations ==
  (Validated /\ BothLoaded) =>
    \A p \in Phases :
      /\ PhaseDemand(tasksData.data, p) = DemandWithDuration(p)
      /\ \A k \in 1..Len(PhaseErrors) :
           PhaseErrors[k].header = PhaseHeader(p)
             => PhaseErrors[k].message.item = NumToString(10 * DemandWithDuration(p))

\* Two tasks of Duration 2 preferring phase 1, one worker with AvailableSlots
\* "1" and MaxLoadPerPhase 1: exactly one "Phase 1" error, demand 2, capacity 1.
C9_Witness ==
  /\ Validated
  /\ Len(tasksData.data) = 2
  /\ \A i \in 1..2 : /\ tasksData.data[i]["Duration"] = Str(<<"2">>)
                     /\ tasksData.data[i]["PreferredPhases"] = Str(<<"1">>)
  /\ Len(workersData.data) = 1
  /\ workersData.data[1]["AvailableSlots"] = Str(<<"1">>)
  /\ workersData.data[1]["MaxLoadPerPhase"] = Str(<<"1">>)
  /\ PhaseErrors = <<Saturated(1, 2, 10)>>

\* The saturated phases, ascending.
SaturatedPhases ==
  LET S == {p \in Phases : 10 * DemandWithDuration(p) > CapacityOf(p)}
  IN CHOOSE ps \in [1..Cardinality(S) -> S] : IsAscending(ps)

\* C10: for every phase p in 1..maxPhase, capacity(p) is the sum of
\* MaxLoadPerPhase over the workers whose normalized AvailableSlots includes p,
\* and there is exactly one error with rowIndex -1 and header "Phase p" if and
\* only if demand(p) > capacity(p), the errors in ascending phase order.
C10_PhaseSaturation ==
  (Validated /\ BothLoaded) =>
    /\ \A p \in Phases : PhaseCapacity(workersData.data, p) = CapacityOf(p)
    /\ PhaseErrors =
         [k \in 1..Len(SaturatedPhases) |->
            Saturated(SaturatedPhases[k], DemandWithDuration(SaturatedPhases[k]),
                      CapacityOf(SaturatedPhases[k]))]

\* Phases 1 and 2 saturated, phase 3 not: two errors, "Phase 1" before "Phase 2".
C10_Witness ==
  /\ Validated
  /\ HighestPhase = 30
  /\ Len(PhaseErrors) = 2
  /\ PhaseErrors[1].rowIndex = -1 /\ PhaseErrors[1].header = "Phase 1"
  /\ PhaseErrors[2].rowIndex = -1 /\ PhaseErrors[2].header = "Phase 2"

\* The results of the concurrency check among the tasks results.
ConcurrencyErrors ==
  FilterSeq(allValidationErrors.tasks,
            {e \in Elems(allValidationErrors.tasks) :
               e.message.kind = "MaxConcurrent is higher than available qualified workers"})

\* The worker rows whose normalized skill set holds every required skill of a task.
QualifiedFor(task) ==
  {w \in 1..Len(workersData.data) :
     ListedIn(task["RequiredSkills"]) \subseteq ListedIn(workersData.data[w]["Skills"])}

\* C11: with tasks and workers both non-empty, a task with a positive numeric
\* MaxConcurrent has a concurrency error if and only if MaxConcurrent exceeds
\* the number of worker rows whose normalized skill set is a superset of its
\* normalized required-skill set (every worker, when that set is empty or
\* absent); a task with a non-positive or non-numeric MaxConcurrent has none.
C11_ConcurrencyFeasibility ==
  (Validated /\ BothLoaded) =>
    \A i \in 1..Len(tasksData.data) :
      LET maxConcurrent == ToNumberV(tasksData.data[i]["MaxConcurrent"])
          reported == \E k \in 1..Len(ConcurrencyErrors) : ConcurrencyErrors[k].rowIndex = i - 1
      IN IF ~maxConcurrent.nan /\ maxConcurrent.v > 0
         THEN reported <=> maxConcurrent.v > 10 * Cardinality(QualifiedFor(tasksData.data[i]))
         ELSE ~reported

\* C12: a validation run with no worker rows publishes no skill-coverage, no
\* concurrency-feasibility and no phase-saturation error, whatever the tasks
\* hold; one with no client rows or no task rows publishes no unknown-reference
\* error.
C12_EmptyDatasetGating ==
  Validated =>
    /\ Len(workersData.data) = 0 =>
         /\ RowErrors(allValidationErrors.tasks, "RequiredSkills") = <<>>
         /\ ConcurrencyErrors = <<>>
         /\ PhaseErrors = <<>>
    /\ (Len(clientsData.data) = 0 \/ Len(tasksData.data) = 0) =>
         RowErrors(allValidationErrors.clients, "Requested TaskIDs") = <<>>

\* Tasks requiring a skill, with a positive MaxConcurrent, and no workers file:
\* the run reports neither.
C12_Witness ==
  /\ Validated
  /\ Len(workersData.data) = 0
  /\ Len(tasksData.data) = 1
  /\ tasksData.data[1]["RequiredSkills"] = Str(<<"w">>)
  /\ tasksData.data[1]["MaxConcurrent"] = Str(<<"1">>)
  /\ RowErrors(allValidationErrors.tasks, "RequiredSkills") = <<>>
  /\ ConcurrencyErrors = <<>>

IsResult(e) ==
  /\ DOMAIN e = {"rowIndex", "header", "message"}
  /\ e.rowIndex \in Int
  /\ e.header \in STRING

IsResultList(errs) ==
  /\ DOMAIN errs = 1..Len(errs)
  /\ \A k \in 1..Len(errs) : IsResult(errs[k])

\* C13: the mapping a validation run publishes has exactly the keys clients,
\* workers and tasks, each bound to a (possibly empty) sequence of results,
\* also when the three datasets are empty.
C13_ThreeKeys ==
  Validated =>
    /\ DOMAIN allValidationErrors = {"clients", "workers", "tasks"}
    /\ \A k \in DOMAIN allValidationErrors : IsResultList(allValidationErrors[k])

\* The run on three empty datasets.
C13_Witness ==
  /\ pc = "validated"
  /\ clientsData = EmptyData /\ workersData = EmptyData /\ tasksData = EmptyData
  /\ DOMAIN allValidationErrors = {"clients", "workers", "tasks"}

\* The rows of a dataset whose cell in a list column the normalizer rejects.
RejectedRows(data, column, mode) ==
  {i \in 1..Len(data) : validateAndNormalizeList(data[i][column], mode).error # Undefined}

\* Every rejected row has a result for that row tagged with the column.
ListColumnChecked(errs, data, column, mode) ==
  \A i \in RejectedRows(data, column, mode) :
    \E e \in Elems(errs) : e.rowIndex = i - 1 /\ e.header = column

\* C15: for every list column of an entity and every row whose cell the
\* normalizer rejects, the entity's results hold an error for that row tagged
\* with that column.
C15_ListWellFormedness ==
  Validated =>
    /\ ListColumnChecked(allValidationErrors.clients, clientsData.data,
                         "Requested TaskIDs", StringMode)
    /\ ListColumnChecked(allValidationErrors.workers, workersData.data,
                         "AvailableSlots", SlotsMode)
    /\ ListColumnChecked(allValidationErrors.workers, workersData.data,
                         "Skills", StringMode)
    /\ ListColumnChecked(allValidationErrors.tasks, tasksData.data,
                         "PreferredPhases", PhasesMode)
    /\ ListColumnChecked(allValidationErrors.tasks, tasksData.data,
                         "RequiredSkills", StringMode)


\* The Invalid JSON format results of a client row.
JsonErrors(i) ==
  {e \in Elems(allValidationErrors.clients) :
     /\ e.rowIndex = i - 1
     /\ e.header = "AttributesJSON"
     /\ e.message.kind = "Invalid JSON format"}

\* The cell is a non-empty string that is not JSON.
IsBrokenJson(cell) == IsStr(cell) /\ cell.s # <<>> /\ ~JsonParses(cell.s)

\* C16: a client row has an Invalid JSON format error under AttributesJSON
\* exactly when its AttributesJSON is a non-empty string that does not parse; a
\* value that parses, is empty or is not a string has none.
C16_BrokenJson ==
  Validated =>
    \A i \in 1..Len(clientsData.data) :
      JsonErrors(i) # {} <=> IsBrokenJson(clientsData.data[i]["AttributesJSON"])

\* The missing-column results of a list, in the order of the list.
MissingColumnErrors(errs) ==
  FilterSeq(errs, {e \in Elems(errs) : e.message.kind = "Missing required column"})

\* The place of a column in the schema's list of required columns.
PlaceIn(required, h) == CHOOSE k \in 1..Len(required) : required[k] = h

\* The results m are one table-wide result per required column that the
\* headers lack, each naming its column, in the schema's order.
OnePerMissingColumn(m, headers, required) ==
  /\ \A k \in 1..Len(m) :
       /\ m[k].rowIndex = -1
       /\ m[k].header \in Elems(required) \ Elems(headers)
       /\ m[k].message.item = <<m[k].header>>
  /\ \A h \in Elems(required) \ Elems(headers) :
       Cardinality({k \in 1..Len(m) : m[k].header = h}) = 1
  /\ \A k, l \in 1..Len(m) :
       k < l => PlaceIn(required, m[k].header) < PlaceIn(required, m[l].header)

\* C17: each entity's results hold exactly one table-wide (rowIndex -1) error
\* per required column absent from the dataset's headers, naming that column,
\* in the schema's order of required columns, and none for a present column.
C17_RequiredColumns ==
  Validated =>
    /\ OnePerMissingColumn(MissingColumnErrors(allValidationErrors.clients),
                           clientsData.headers, ClientsRequired)
    /\ OnePerMissingColumn(MissingColumnErrors(allValidationErrors.workers),
                           workersData.headers, WorkersRequired)
    /\ OnePerMissingColumn(MissingColumnErrors(allValidationErrors.tasks),
                           tasksData.headers, TasksRequired)

\* A tasks file with two of the five required columns, out of schema order.
C17_Witness ==
  /\ Validated
  /\ tasksData.headers = <<"MaxConcurrent", "TaskID">>
  /\ Len(MissingColumnErrors(allValidationErrors.tasks)) = 3

\* How many out-of-range results a list holds for a row and a column.
OutOfRangeCount(errs, i, header) ==
  Cardinality({k \in 1..Len(errs) :
                 /\ errs[k].rowIndex = i - 1
                 /\ errs[k].header = header
                 /\ errs[k].message.kind = "Value out of range"})

\* A cell holds a value: it is not absent, and not the empty string, 0 or
\* false, which the program takes for absent.
Present(cell) == cell \notin {Undefined, Str(<<>>), Num(0), Bool(FALSE)}

\* The cell is present, a number, and below min or above max (whole numbers;
\* max = 0 stands for no upper bound).
OutOfRange(cell, min, max) ==
  /\ Present(cell)
  /\ ~ToNumberV(cell).nan
  /\ \/ ToNumberV(cell).v < 10 * min
     \/ (max > 0 /\ ToNumberV(cell).v > 10 * max)

\* Every row of the dataset has one out-of-range result under the column when
\* its cell is out of range, none otherwise.
RangeChecked(errs, data, header, min, max) ==
  \A i \in 1..Len(data) :
    OutOfRangeCount(errs, i, header) = IF OutOfRange(data[i][header], min, max) THEN 1 ELSE 0

\* C18: a row has an out-of-range error under PriorityLevel (1..5), Duration
\* (>= 1) or MaxConcurrent (>= 1) exactly when the value is present, coerces to
\* a number and lies outside the inclusive range; absent and non-numeric values
\* and values on the bounds have none.
C18_OutOfRange ==
  Validated =>
    /\ RangeChecked(allValidationErrors.clients, clientsData.data, "PriorityLevel", 1, 5)
    /\ RangeChecked(allValidationErrors.tasks, tasksData.data, "Duration", 1, 0)
    /\ RangeChecked(allValidationErrors.tasks, tasksData.data, "MaxConcurrent", 1, 0)

\* A priority on the upper bound beside one above it.
C18_Witness ==
  /\ Validated
  /\ Len(clientsData.data) = 2
  /\ clientsData.data[1]["PriorityLevel"] = Str(<<"5">>)
  /\ clientsData.data[2]["PriorityLevel"] = Str(<<"6">>)
  /\ OutOfRangeCount(allValidationErrors.clients, 1, "PriorityLevel") = 0
  /\ OutOfRangeCount(allValidationErrors.clients, 2, "PriorityLevel") = 1

\* The slots a cell lists: its trimmed, non-empty, comma-separated tokens.
SlotTokens(s) == {t \in {Trim(x) : x \in Pieces(StripBrackets(s))} : t # <<>>}

\* Every token is a number (a range is none: ranges are not allowed here).
SlotsWellFormed(s) == \A t \in SlotTokens(s) : ~ToNumber(t).nan

DistinctSlots(s) == {ToNumber(t).v : t \in SlotTokens(s)}

OverloadCount(i) ==
  Cardinality({k \in 1..Len(allValidationErrors.workers) :
                 /\ allValidationErrors.workers[k].rowIndex = i - 1
                 /\ allValidationErrors.workers[k].header = "MaxLoadPerPhase"})

MalformedCount(i) ==
  Cardinality({k \in 1..Len(allValidationErrors.workers) :
                 /\ allValidationErrors.workers[k].rowIndex = i - 1
                 /\ allValidationErrors.workers[k].header = "AvailableSlots"})

\* The worker row has a present slots list and a numeric MaxLoadPerPhase.
SlotsAndLoad(worker) ==
  /\ IsStr(worker["AvailableSlots"]) /\ worker["AvailableSlots"].s # <<>>
  /\ ~ToNumberV(worker["MaxLoadPerPhase"]).nan

\* The row's results are what its slots and its load call for.
OverloadChecked(i, slots, load) ==
  IF SlotsWellFormed(slots)
  THEN /\ MalformedCount(i) = 0
       /\ OverloadCount(i) > 0 <=> 10 * Cardinality(DistinctSlots(slots)) < load
  ELSE /\ MalformedCount(i) = 1
       /\ OverloadCount(i) = 0

\* C19: a worker row with a present AvailableSlots and a numeric MaxLoadPerPhase
\* has an overload error under MaxLoadPerPhase exactly when its slots are all
\* numbers and fewer distinct slots than MaxLoadPerPhase; a malformed slots list
\* gets exactly one Malformed AvailableSlots error and no overload error, and
\* the rows after it are checked all the same.
C19_OverloadedWorkers ==
  Validated =>
    \A i \in 1..Len(workersData.data) :
      SlotsAndLoad(workersData.data[i]) =>
        OverloadChecked(i, workersData.data[i]["AvailableSlots"].s,
                        ToNumberV(workersData.data[i]["MaxLoadPerPhase"]).v)

\* A malformed row followed by an overloaded one.
C19_Witness ==
  /\ Validated
  /\ Len(workersData.data) = 2
  /\ workersData.data[1]["AvailableSlots"] = Str(<<"1", "-", "2">>)
  /\ workersData.data[1]["MaxLoadPerPhase"] = Str(<<"1">>)
  /\ workersData.data[2]["AvailableSlots"] = Str(<<"1", ",", " ", "1">>)
  /\ workersData.data[2]["MaxLoadPerPhase"] = Str(<<"2">>)
  /\ MalformedCount(1) = 1 /\ OverloadCount(1) = 0
  /\ OverloadCount(2) = 1

\* C20: the orchestrator never throws: whatever strings, numbers, booleans or
\* objects the cells of the rows are, a validation run returns its mapping.
C20_NeverThrows == pc # "thrown"

\* A step that is a validation run: a pending run returns or throws.
IsValidationRun ==
  /\ pc \in {"mounted", "loaded", "reloaded"}
  /\ pc' \in {"validated", "revalidated", "thrown"}

\* C21: a validation run leaves its inputs unchanged: the rows, the cell values,
\* the row order and the headers of the three datasets are after the run what
\* they were before it.
C21_InputsUnchanged ==
  [][IsValidationRun =>
       /\ clientsData' = clientsData
       /\ workersData' = workersData
       /\ tasksData' = tasksData]_vars

\* A run over client rows whose list cell is not in normalized form, that found
\* errors.
C21_Witness ==
  /\ pc = "validated"
  /\ Len(clientsData.data) = 2
  /\ clientsData.data[1]["Requested TaskIDs"] = Str(<<"T", "2", ",", "T", "1", ",", "T", "2">>)
  /\ Len(tasksData.data) > 0
  /\ RowErrors(allValidationErrors.clients, "Requested TaskIDs") # <<>>


\* C22: every call terminates: the normalizer completes and returns for every
\* token, a range with a very large or infinite bound such as 1-Infinity
\* included.
C22_Terminates == <>(pc = "returned")

\* The columns of an entity's schema.
SchemaColumns(entityType) ==
  CASE entityType = "clients" -> ClientColumns
    [] entityType = "workers" -> WorkerColumns
    [] OTHER -> TaskColumns

\* The synthetic header of a phase: "Phase N".
IsPhaseLabel(header) == \E n \in 1..100 : header = "Phase " \o ToString(n)

\* C23: every result of an entity has a header that is a column of that
\* entity's schema, or else has rowIndex -1 with an empty header or a synthetic
\* one ("Phase N").
C23_Headers ==
  Validated =>
    \A entityType \in {"clients", "workers", "tasks"} :
      \A e \in Elems(allValidationErrors[entityType]) :
        \/ e.header \in SchemaColumns(entityType)
        \/ (e.rowIndex = -1 /\ (e.header = "" \/ IsPhaseLabel(e.header)))

\* A run with a saturated phase and a worker row error.
C23_Witness ==
  /\ Validated
  /\ \E e \in Elems(allValidationErrors.tasks) : e.rowIndex = -1 /\ IsPhaseLabel(e.header)
  /\ \E e \in Elems(allValidationErrors.workers) : e.rowIndex >= 0

\* The texts of the normalizer's errors.
NormalizerKinds ==
  {"Invalid range format", "Non-numeric value in range", "Invalid range, start > end",
   "Non-numeric value"}

\* The texts of the first cross-entity check of each entity: unknown references
\* (clients), overloaded workers (workers), skill coverage (tasks), each with
\* the malformed-list result the check itself returns.
FirstCrossKinds ==
  {"Unknown TaskID", "Worker has fewer available slots than MaxLoadPerPhase",
   "Required skill not found in any worker"}
    \cup {"Malformed Requested TaskIDs: " \o k : k \in NormalizerKinds}
    \cup {"Malformed AvailableSlots: " \o k : k \in NormalizerKinds}
    \cup {"Malformed RequiredSkills: " \o k : k \in NormalizerKinds}

\* The place of a result's rule in the order of the rules.
RuleOrder(e) ==
  CASE e.message.kind = "Missing required column" -> 1
    [] e.message.kind = "Duplicate ID found" -> 2
    [] e.message.kind = "Value out of range" -> 3
    [] e.message.kind = "Invalid JSON format" -> 4
    [] e.message.kind \in NormalizerKinds -> 5
    [] e.message.kind \in FirstCrossKinds -> 6
    [] e.message.kind = "MaxConcurrent is higher than available qualified workers" -> 7
    [] e.message.kind = "Phase is saturated: Demand exceeds Capacity" -> 8

InRuleOrder(errs) ==
  \A k, l \in 1..Len(errs) : k < l => RuleOrder(errs[k]) <= RuleOrder(errs[l])

\* C24: within each entity's results the errors are in the order of the rules:
\* required columns, duplicate ids, ranges, JSON, list well-formedness, then the
\* cross-entity checks (for tasks: skill coverage, concurrency, phase
\* saturation); no error of a later rule precedes one of an earlier rule.
C24_RuleOrder ==
  Validated =>
    /\ InRuleOrder(allValidationErrors.clients)
    /\ InRuleOrder(allValidationErrors.workers)
    /\ InRuleOrder(allValidationErrors.tasks)

\* Tasks results of three rules: a concurrency error, then a saturated phase.
C24_Witness ==
  /\ Validated
  /\ \E k, l \in 1..Len(allValidationErrors.tasks) :
       /\ k < l
       /\ RuleOrder(allValidationErrors.tasks[k]) = 7
       /\ RuleOrder(allValidationErrors.tasks[l]) = 8

\* The datasets with one cell replaced.
DataWithCell(c, cell) ==
  [clients |-> IF c[1] = "clients" THEN WithCell(clientsData, c[2], c[3], cell)
               ELSE clientsData,
   workers |-> IF c[1] = "workers" THEN WithCell(workersData, c[2], c[3], cell)
               ELSE workersData,
   tasks |-> IF c[1] = "tasks" THEN WithCell(tasksData, c[2], c[3], cell) ELSE tasksData]

CurrentData == [clients |-> clientsData, workers |-> workersData, tasks |-> tasksData]
NextData == [clients |-> clientsData', workers |-> workersData', tasks |-> tasksData']

CellOf(c) == EntityData(c[1]).data[c[2] + 1][c[3]]

\* What leaving the cell c is to do, given the normalizer's result for it.
BlurOutcome(c, cellResult) ==
  IF c[3] \in ListColumns(c[1]) /\ cellResult.error = Undefined
       /\ cellResult.normalized # CellOf(c)
  THEN NextData = DataWithCell(c, cellResult.normalized)
  ELSE NextData = CurrentData

\* The call of triggerValidation that ends the handler has published the
\* results of the present datasets.
BlurValidates(current) == allValidationErrors' = current

\* C25: handleCellBlur on a list column stores the normalized form when the
\* normalization succeeds and differs from the cell, leaves the cell as it was
\* on an error and on a column that is not a list column, and in every case
\* calls triggerValidation.
C25_CellBlur ==
  [][scenario = "blur" /\ Validated /\ UNCHANGED <<normalizerVars, scenario>> =>
       \E current \in {runDeterministicValidations(CurrentData)} :
         \A c \in Cells :
           BlurData(c) =>
             /\ BlurOutcome(c, validateAndNormalizeList(Str(ToStringV(CellOf(c))),
                                                        getValidationOptions(c[1], c[3])))
             /\ BlurValidates(current)]_vars

\* A client cell in the normal form that only leaving the cell gives it.
C25_Witness ==
  /\ scenario = "blur"
  /\ Len(clientsData.data) > 0
  /\ clientsData.data[1]["Requested TaskIDs"] = Str(<<"T", "1", ",", " ", "T", "2">>)

\* C28: leaving a list cell that is absent or the empty string leaves the cell
\* as it was; no value is written into it, never the text "undefined".
C28_EmptyCellKept ==
  [][\A c \in Cells :
       c[3] \in ListColumns(c[1]) /\ CellOf(c) \in {Undefined, Str(<<>>)}
         /\ handleCellBlurAt(c)
         => NextData[c[1]].data[c[2] + 1][c[3]] = CellOf(c)]_vars

\* No run is pending: the last one has published its result or has thrown.
Settled == pc \in {"validated", "revalidated", "thrown"}

\* C26: after any sequence of file loads, cell edits, cell blurs and applied
\* suggestions, once nothing is pending the published allValidationErrors is
\* the result of runDeterministicValidations on the current datasets.
C26_PublishedIsCurrent ==
  Settled => allValidationErrors = runDeterministicValidations(CurrentData)

\* The results a check reports for a list it takes as malformed.
MalformedResults(errs, prefix) ==
  {k \in 1..Len(errs) :
     errs[k].message.kind \in {prefix \o kind : kind \in NormalizerKinds}}

\* A task row and a worker row for the checks that read the value as a list.
ListTaskRow(cell) ==
  Row(TaskColumns, [TaskID |-> Str(<<"1">>), RequiredSkills |-> cell])
ListWorkerRow == Row(WorkerColumns, [Skills |-> Str(<<"a">>)])

\* C27: in string mode validateAndNormalizeList returns no error for any input,
\* and so the unknown-reference and the skill-coverage check never report a
\* malformed list.
C27_StringModeNoError ==
  (pc = "returned" /\ ~options.numeric) =>
    /\ result.error = Undefined
    /\ ~SplitThrows(value) =>
         /\ MalformedResults(
              validateUnknownReferences(
                <<Row(ClientColumns, ("Requested TaskIDs" :> value))>>,
                <<ListTaskRow(Undefined)>>),
              "Malformed Requested TaskIDs: ") = {}
         /\ MalformedResults(
              validateSkillCoverageMatrix(<<ListTaskRow(value)>>, <<ListWorkerRow>>),
              "Malformed RequiredSkills: ") = {}

\* A string-mode call on a list with a hyphen in an item: the one shape that
\* is an error in numeric mode.
C27_Witness ==
  /\ pc = "returned" /\ ~options.numeric
  /\ StringInput /\ Includes(value.s, "-")
  /\ result.error = Undefined /\ IsStr(result.normalized)

\* The (task row, header) pairs the skill-coverage and the concurrency check
\* flag in the results of the tasks.
Flagged(errs) ==
  {<<errs[k].rowIndex, errs[k].header>> :
     k \in {j \in 1..Len(errs) :
              errs[j].message.kind \in
                {"Required skill not found in any worker",
                 "MaxConcurrent is higher than available qualified workers"}}}

\* C29: with the tasks fixed and the workers not empty, the run after a worker
\* row was appended flags no (task row, header) pair for skill coverage or
\* concurrency that the run before did not flag.
C29_WorkersMonotone ==
  [][(pc = "reloaded" /\ pc' = "revalidated") =>
       Flagged(allValidationErrors'.tasks) \subseteq Flagged(allValidationErrors.tasks)]_vars

\* After a worker row was appended: the first task is still short of qualified
\* workers, and no longer short of a skill.
C29_Witness ==
  /\ pc = "revalidated" /\ scenario = "skills"
  /\ Len(workersData.data) = 2
  /\ <<0, "MaxConcurrent">> \in Flagged(allValidationErrors.tasks)
  /\ <<0, "RequiredSkills">> \notin Flagged(allValidationErrors.tasks)

\* The rules whose results stand for no row.
NoRowKinds == {"Missing required column", "Phase is saturated: Demand exceeds Capacity"}

\* The results of an entity index its own rows, or no row for the two rules
\* that report on the whole dataset.
RowIndexesOf(errs, data) ==
  \A k \in 1..Len(errs) :
    IF errs[k].message.kind \in NoRowKinds
    THEN errs[k].rowIndex = -1
    ELSE errs[k].rowIndex \in 0..(Len(data) - 1)

KindsOf(errs) == {errs[k].message.kind : k \in 1..Len(errs)}

\* C30: every result under an entity key has rowIndex -1 or the index of a row
\* of that entity's dataset; rowIndex -1 comes only from the required-columns
\* and the phase-saturation check; unknown-reference results are under clients
\* and skill-coverage and concurrency results under tasks.
C30_RowIndexes ==
  Validated =>
    /\ RowIndexesOf(allValidationErrors.clients, clientsData.data)
    /\ RowIndexesOf(allValidationErrors.workers, workersData.data)
    /\ RowIndexesOf(allValidationErrors.tasks, tasksData.data)
    /\ "Unknown TaskID" \notin
         KindsOf(allValidationErrors.workers) \cup KindsOf(allValidationErrors.tasks)
    /\ {"Required skill not found in any worker",
        "MaxConcurrent is higher than available qualified workers"}
         \cap (KindsOf(allValidationErrors.clients) \cup KindsOf(allValidationErrors.workers))
         = {}

\* Two worker rows, the second with fewer slots than its load: a result that
\* indexes the last row of the workers.
C30_Witness ==
  /\ Validated
  /\ Len(workersData.data) = 2
  /\ \E k \in 1..Len(allValidationErrors.workers) :
       /\ allValidationErrors.workers[k].rowIndex = 1
       /\ allValidationErrors.workers[k].header = "MaxLoadPerPhase"

====
